---- MODULE Spec2Model ----
(***************************************************************************)
(* Model of the sidebar navigation state engine of megacodist/articles:    *)
(* the tree data model (types/m3a-sidebar.tsx), the two reconcilers        *)
(* useExpandedState / useActiveState (lib/sidebar/hooks.ts), the recursive *)
(* SidebarNodeRenderer that builds the per-node render context, and the    *)
(* Sidebar root component (lib/sidebar/Sidebar.tsx).                       *)
(*                                                                         *)
(* React semantics kept by the model:                                      *)
(*  - useState gives the value of the last render (internalIds,            *)
(*    internalId); a setter called from a handler only queues an update.   *)
(*    The queue of updater functions is applied in order at the next       *)
(*    render; the model keeps the queue as its reduction (pendingIds,      *)
(*    pendingId), which is exact because the updaters are pure.            *)
(*  - the callbacks of a render context are closures over the values of    *)
(*    the render that built them; they see ExpandedIds / ActiveId of that  *)
(*    render until the next render happens.                                *)
(*  - a change of the props is a render of the parent, which renders the   *)
(*    Sidebar in the same pass.                                            *)
(***************************************************************************)
EXTENDS Integers, Sequences, FiniteSets, TLC

VARIABLES
    props,        \* SidebarProps of the last render
    internalIds,  \* useExpandedState: useState value of the last render
    pendingIds,   \* internalIds with the queued updaters applied
    internalId,   \* useActiveState: useState value of the last render
    pendingId,    \* internalId with the queued updates applied
    log,          \* the last mutator invocation and the calls it made, in order
    prevIds,      \* pendingIds as it was before the last mutator invocation
    batch,        \* mutator invocations since the last render
    read,         \* the outcome of the last useSidebarContext() call, if any
    ownerIds,     \* the Set a parent keeps for expandedIds, with its queue applied
    twin,         \* an uncontrolled Sidebar next to a controlled one, if any
    script,       \* the scanner: "data.ts" or "scanner.ts", whichever runs
    m3Config,     \* the configuration it was started with
    entries,      \* the articles directory as fs.readdir lists it
    pc,           \* where main() is: "idle", "scan", "scanned", "done", "failed"
    cursor,       \* the entry of the articles directory the loop is at
    rawNodes,     \* scanDirectory(articlesDir): the nodes pushed so far
    warnings,     \* Record<relative path, ArticleWarning>
    output        \* the nodes written to the output file, if written

\* The state of the Sidebar and the state of the build-time scanner.
sidebarVars ==
    <<props, internalIds, pendingIds, internalId, pendingId, log, prevIds, batch,
      read, ownerIds, twin>>
pairVars == <<ownerIds, twin>>
scanVars == <<script, m3Config, entries, pc, cursor, rawNodes, warnings, output>>

vars == <<sidebarVars, scanVars>>

\* Mutator invocations one event handler may issue before React renders again.
MaxBatch == 2

\* ---------------------------------------------------------------------------
\* Values of optional props
\* ---------------------------------------------------------------------------

\* `undefined` and `null` of a `string | null | undefined` prop.
Undefined == "undefined"
Null == "null"

\* An optional Set<string> prop: not provided, or provided with a value.
NotProvided == [given |-> FALSE]
Provided(s) == [given |-> TRUE, value |-> s]

\* A Sidebar on its own: no parent state and no second Sidebar are followed.
NotPaired ==
    /\ ownerIds = NotProvided
    /\ twin = NotProvided

\* The scanner is a build-time script: while a Sidebar runs it is not running.
NotScanning ==
    /\ script = "none"
    /\ m3Config = << >>
    /\ entries = << >>
    /\ pc = "idle"
    /\ cursor = 0
    /\ rawNodes = << >>
    /\ warnings = << >>
    /\ output = NotProvided

\* ---------------------------------------------------------------------------
\* Tree data model
\* ---------------------------------------------------------------------------

BranchNode(id, disabled, children) ==
    [id |-> id, type |-> "branch", disabled |-> disabled, children |-> children]

LeafNode(id, disabled) ==
    [id |-> id, type |-> "leaf", disabled |-> disabled]

\* The forest the model is run on: a branch holding a disabled branch that
\* holds a leaf, and an empty branch.
\*   a - b (disabled) - c
\*   e (no children)
Forest ==
    << BranchNode("a", FALSE, << BranchNode("b", TRUE, << LeafNode("c", FALSE) >>) >>),
       BranchNode("e", FALSE, << >>) >>

RECURSIVE NodesOf(_)
RECURSIVE NodesOfList(_, _)
\* Every node of the subtree rooted at node, as a set of node records.
NodesOf(node) ==
    {node} \cup (IF node.type = "branch" THEN NodesOfList(node.children, 1) ELSE {})
NodesOfList(nodes, i) ==
    IF i > Len(nodes) THEN {}
    ELSE NodesOf(nodes[i]) \cup NodesOfList(nodes, i + 1)

\* ---------------------------------------------------------------------------
\* hooks.ts: helpers
\* ---------------------------------------------------------------------------

RECURSIVE traverse(_)
RECURSIVE traverseAll(_, _)
\* collectBranchIds.traverse: the ids added below one node.
traverse(node) ==
    IF node.type = "branch"
    THEN {node.id} \cup traverseAll(node.children, 1)
    ELSE {}
traverseAll(nodes, i) ==
    IF i > Len(nodes) THEN {}
    ELSE traverse(nodes[i]) \cup traverseAll(nodes, i + 1)

collectBranchIds(nodes) == traverseAll(nodes, 1)

normalizeData(data) ==
    IF data.isArray THEN data.value ELSE << data.value >>

\* Sidebar: const nodes = useMemo(() => normalizeData(data), [data])
nodes == normalizeData(props.data)

AllNodes == NodesOfList(nodes, 1)
AllIds == {n.id : n \in AllNodes}
NodeById(id) == CHOOSE n \in AllNodes : n.id = id

\* ---------------------------------------------------------------------------
\* hooks.ts: useExpandedState
\* ---------------------------------------------------------------------------

\* initialIds that prefers defaultIds to defaultExpandAll.
initialIds_defaultsFirst(p) ==
    IF p.defaultExpandedIds.given
    THEN p.defaultExpandedIds.value
    ELSE IF p.defaultExpandAll THEN collectBranchIds(normalizeData(p.data)) ELSE {}

\* initialIds that expands all when no default is given.
initialIds_allWithoutDefault(p) ==
    IF p.defaultExpandAll \/ ~p.defaultExpandedIds.given
    THEN collectBranchIds(normalizeData(p.data))
    ELSE p.defaultExpandedIds.value

\* initialIds of useExpandedState, the argument of useState on mount.
initialIds(p) ==
    IF p.defaultExpandAll
    THEN collectBranchIds(normalizeData(p.data))
    ELSE IF p.defaultExpandedIds.given THEN p.defaultExpandedIds.value ELSE {}

\* const isControlled = controlledIds !== undefined
isControlledExpanded == props.expandedIds.given

\* const expandedIds = controlledIds ?? internalIds
expandedIds ==
    IF props.expandedIds.given THEN props.expandedIds.value ELSE internalIds

isExpanded(id) == id \in expandedIds

\* toggleUpdater that collapses a node together with everything below it.
toggleUpdater_collapseSubtree(prev, id) ==
    IF id \in prev
    THEN prev \ {n.id : n \in NodesOf(NodeById(id))}
    ELSE prev \cup {id}

\* toggleUpdater that collapses every other id when it expands one.
toggleUpdater_accordion(prev, id) ==
    IF id \in prev THEN prev \ {id} ELSE {id}

\* toggleUpdater that never deletes.
toggleUpdater_addOnly(prev, id) == prev \cup {id}

\* The updater toggle passes to setInternalIds.
toggleUpdater(prev, id) ==
    IF id \in prev THEN prev \ {id} ELSE prev \cup {id}

\* setExpandedUpdater that expands by flipping the membership.
setExpandedUpdater_flip(prev, id, expanded) ==
    IF expanded THEN toggleUpdater(prev, id) ELSE prev \ {id}

\* The updater setExpanded passes to setInternalIds.
setExpandedUpdater(prev, id, expanded) ==
    IF expanded THEN prev \cup {id} ELSE prev \ {id}

\* toggle without the early return of controlled mode.
toggle_unguarded(store, id) == toggleUpdater(store, id)

\* useExpandedState.toggle: the store after the call.
toggle(store, id) ==
    IF isControlledExpanded THEN store ELSE toggleUpdater(store, id)

\* useExpandedState.setExpanded: the store after the call.
setExpanded(store, id, expanded) ==
    IF isControlledExpanded THEN store ELSE setExpandedUpdater(store, id, expanded)

\* ---------------------------------------------------------------------------
\* hooks.ts: useActiveState
\* ---------------------------------------------------------------------------

\* defaultId = null: the default of the parameter, the argument of useState.
initialId(p) ==
    IF p.defaultActiveId = Undefined THEN Null ELSE p.defaultActiveId

\* One mode for both reconcilers: controlled as soon as either prop is given.
isControlledActive_eitherProp ==
    props.activeId # Undefined \/ props.expandedIds.given

isControlledActive == props.activeId # Undefined

activeId == IF isControlledActive THEN props.activeId ELSE internalId

\* isActive that accepts the id of either source.
isActive_eitherSource(id) == id = internalId \/ id = props.activeId

isActive(id) == activeId = id

\* setActive that refuses the id of a disabled node.
setActive_refusesDisabled(store, id) ==
    IF ~isControlledActive /\ (id = Null \/ ~NodeById(id).disabled)
    THEN id ELSE store

\* setActive with the mode test inverted.
setActive_inverted(store, id) ==
    IF isControlledActive THEN id ELSE store

\* useActiveState.setActive: the store after the call.
setActive(store, id) ==
    IF ~isControlledActive THEN id ELSE store

\* ---------------------------------------------------------------------------
\* hooks.ts: SidebarNodeRenderer, and Sidebar.tsx
\* ---------------------------------------------------------------------------

RECURSIVE SidebarNodeRendererInner(_, _, _, _, _, _)
RECURSIVE renderChildren(_, _, _, _, _)
\* The renderer without the isExpanded test before the children.
SidebarNodeRendererInner_noPrune(node, depth, index, siblingsCount, E, A) ==
    LET context == [ node        |-> node,
                     depth       |-> depth,
                     index       |-> index,
                     isFirst     |-> index = 0,
                     isLast      |-> index = siblingsCount - 1,
                     isExpanded  |-> node.type = "branch" /\ node.id \in E,
                     isActive    |-> A = node.id,
                     hasChildren |-> node.type = "branch" /\ Len(node.children) > 0 ]
    IN  << context >> \o
        (IF node.type = "branch" /\ Len(node.children) > 0
         THEN renderChildren(node.children, 1, depth + 1, E, A)
         ELSE << >>)

\* The renderer with hasChildren decided by the node type alone.
SidebarNodeRendererInner_typeOnly(node, depth, index, siblingsCount, E, A) ==
    LET isExp == node.type = "branch" /\ node.id \in E
        context == [ node        |-> node,
                     depth       |-> depth,
                     index       |-> index,
                     isFirst     |-> index = 0,
                     isLast      |-> index = siblingsCount - 1,
                     isExpanded  |-> isExp,
                     isActive    |-> A = node.id,
                     hasChildren |-> node.type = "branch" ]
    IN  << context >> \o
        (IF node.type = "branch" /\ isExp /\ Len(node.children) > 0
         THEN renderChildren(node.children, 1, depth + 1, E, A)
         ELSE << >>)

\* The renderer with isLast compared with the sibling count itself.
SidebarNodeRendererInner_lastOffByOne(node, depth, index, siblingsCount, E, A) ==
    LET isExp == node.type = "branch" /\ node.id \in E
        context == [ node        |-> node,
                     depth       |-> depth,
                     index       |-> index,
                     isFirst     |-> index = 0,
                     isLast      |-> index = siblingsCount,
                     isExpanded  |-> isExp,
                     isActive    |-> A = node.id,
                     hasChildren |-> node.type = "branch" /\ Len(node.children) > 0 ]
    IN  << context >> \o
        (IF node.type = "branch" /\ isExp /\ Len(node.children) > 0
         THEN renderChildren(node.children, 1, depth + 1, E, A)
         ELSE << >>)

\* The renderer with isExpanded read from the set for any kind of node.
SidebarNodeRendererInner_anyKind(node, depth, index, siblingsCount, E, A) ==
    LET isExp == node.id \in E
        context == [ node        |-> node,
                     depth       |-> depth,
                     index       |-> index,
                     isFirst     |-> index = 0,
                     isLast      |-> index = siblingsCount - 1,
                     isExpanded  |-> isExp,
                     isActive    |-> A = node.id,
                     hasChildren |-> node.type = "branch" /\ Len(node.children) > 0 ]
    IN  << context >> \o
        (IF node.type = "branch" /\ isExp /\ Len(node.children) > 0
         THEN renderChildren(node.children, 1, depth + 1, E, A)
         ELSE << >>)

\* One render of a node: its render context, followed by the renders of its
\* children when it is an expanded branch with children.  E and A are the
\* expandedIds and activeId read from the sidebar context.
SidebarNodeRendererInner(node, depth, index, siblingsCount, E, A) ==
    LET isExp == node.type = "branch" /\ node.id \in E
        context == [ node        |-> node,
                     depth       |-> depth,
                     index       |-> index,
                     isFirst     |-> index = 0,
                     isLast      |-> index = siblingsCount - 1,
                     isExpanded  |-> isExp,
                     isActive    |-> A = node.id,
                     hasChildren |-> node.type = "branch" /\ Len(node.children) > 0 ]
    IN  << context >> \o
        (IF node.type = "branch" /\ isExp /\ Len(node.children) > 0
         THEN renderChildren(node.children, 1, depth + 1, E, A)
         ELSE << >>)

\* The children rendered last to first.
renderChildren_reversed(list, i, depth, E, A) ==
    IF i > Len(list) THEN << >>
    ELSE renderChildren(list, i + 1, depth, E, A)
         \o SidebarNodeRendererInner(list[i], depth, i - 1, Len(list), E, A)

\* The children rendered with their index counted from 1.
renderChildren_oneBased(list, i, depth, E, A) ==
    IF i > Len(list) THEN << >>
    ELSE SidebarNodeRendererInner(list[i], depth, i, Len(list), E, A)
         \o renderChildren(list, i + 1, depth, E, A)

\* list.map((child, childIndex) => <SidebarNodeRenderer .../>), from the
\* i-th element on.
renderChildren(list, i, depth, E, A) ==
    IF i > Len(list) THEN << >>
    ELSE SidebarNodeRendererInner(list[i], depth, i - 1, Len(list), E, A)
         \o renderChildren(list, i + 1, depth, E, A)

\* Sidebar: the contexts of one traversal of the forest, in render order.
Sidebar(p, ids, id) ==
    renderChildren(normalizeData(p.data), 1, 0,
                   IF p.expandedIds.given THEN p.expandedIds.value ELSE ids,
                   IF p.activeId # Undefined THEN p.activeId ELSE id)

\* The contexts of the last render; their mutators are the handlers below.
contexts == Sidebar(props, internalIds, internalId)
Visible == {contexts[i] : i \in 1..Len(contexts)}

\* ---------------------------------------------------------------------------
\* Calls made by a handler
\* ---------------------------------------------------------------------------

\* One call: of a render-context mutator (toggle, setExpanded, activate), of a
\* reconciler mutator (toggleNode, setNodeExpanded, setActiveId) or of an
\* external callback (onToggle, onActivate).  flag is the boolean argument,
\* FALSE where the call has none.
Call(ev, id, flag) == [ev |-> ev, id |-> id, flag |-> flag]

\* onToggle?.(node, flag) and onActivate?.(node)
\* onToggle fired only while the Sidebar owns the expanded set.
onToggle_uncontrolledOnly(node, flag) ==
    IF props.onToggle /\ ~isControlledExpanded
    THEN << Call("onToggle", node.id, flag) >> ELSE << >>

onToggle(node, flag) ==
    IF props.onToggle THEN << Call("onToggle", node.id, flag) >> ELSE << >>
onActivate(node) ==
    IF props.onActivate THEN << Call("onActivate", node.id, FALSE) >> ELSE << >>

\* The toggle callback without the early return for leaves.
ctxToggle_noKindCheck(ctx, store) ==
    LET newExpanded == ~(ctx.node.id \in expandedIds)
    IN  [ids   |-> toggle(store, ctx.node.id),
         calls |-> << Call("toggleNode", ctx.node.id, FALSE) >>
                   \o onToggle(ctx.node, newExpanded)]

\* The toggle callback of a render context: the store after it and its calls.
ctxToggle(ctx, store) ==
    IF ctx.node.type # "branch"
    THEN [ids |-> store, calls |-> << >>]
    ELSE LET newExpanded == ~(ctx.node.id \in expandedIds)
         IN  [ids   |-> toggle(store, ctx.node.id),
              calls |-> << Call("toggleNode", ctx.node.id, FALSE) >>
                        \o onToggle(ctx.node, newExpanded)]

\* The setExpanded callback without the early return for leaves.
ctxSetExpanded_noKindCheck(ctx, store, expanded) ==
    [ids   |-> setExpanded(store, ctx.node.id, expanded),
     calls |-> << Call("setNodeExpanded", ctx.node.id, expanded) >>
               \o onToggle(ctx.node, expanded)]

\* The setExpanded callback of a render context.
ctxSetExpanded(ctx, store, expanded) ==
    IF ctx.node.type # "branch"
    THEN [ids |-> store, calls |-> << >>]
    ELSE [ids   |-> setExpanded(store, ctx.node.id, expanded),
          calls |-> << Call("setNodeExpanded", ctx.node.id, expanded) >>
                    \o onToggle(ctx.node, expanded)]

\* The activate callback of a render context.
ctxActivate(ctx, store) ==
    IF ctx.node.disabled
    THEN [id |-> store, calls |-> << >>]
    ELSE [id    |-> setActive(store, ctx.node.id),
          calls |-> << Call("setActiveId", ctx.node.id, FALSE) >>
                    \o onActivate(ctx.node)]

\* ---------------------------------------------------------------------------
\* Props the Sidebar is mounted and re-rendered with
\* ---------------------------------------------------------------------------

\* Values of the controlled props a parent passes.
ExpandedIdsProps == {NotProvided, Provided({}), Provided({"a", "b"})}
ActiveIdProps == {Undefined, Null, "c"}

\* Uncontrolled defaults a Sidebar is mounted with:
\* <<defaultExpandedIds, defaultExpandAll, defaultActiveId>>.
Defaults ==
    { <<NotProvided, FALSE, Undefined>>,
      <<Provided({"b"}), TRUE, "a">> }

MountProps ==
    { [ data               |-> [isArray |-> TRUE, value |-> Forest],
        expandedIds        |-> e,
        activeId           |-> a,
        defaultExpandedIds |-> d[1],
        defaultExpandAll   |-> d[2],
        defaultActiveId    |-> d[3],
        onToggle           |-> TRUE,
        onActivate         |-> TRUE ] :
      e \in ExpandedIdsProps, a \in ActiveIdProps, d \in Defaults }

\* ---------------------------------------------------------------------------
\* State machine
\* ---------------------------------------------------------------------------

\* The Sidebar is mounted: both useState cells take their initial value.
Init ==
    /\ props \in MountProps
    /\ internalIds = initialIds(props)
    /\ pendingIds = internalIds
    /\ internalId = initialId(props)
    /\ pendingId = internalId
    /\ log = << >>
    /\ prevIds = internalIds
    /\ batch = 0
    /\ read = << >>
    /\ NotPaired
    /\ NotScanning

\* toggleNode(id) called through the sidebar context value.
ToggleNode(id) ==
    /\ batch < MaxBatch
    /\ pendingIds' = toggle(pendingIds, id)
    /\ prevIds' = pendingIds
    /\ log' = << Call("toggleNode", id, FALSE) >>
    /\ batch' = batch + 1
    /\ UNCHANGED <<props, internalIds, internalId, pendingId, read, pairVars, scanVars>>

\* setNodeExpanded(id, expanded) called through the sidebar context value.
SetNodeExpanded(id, expanded) ==
    /\ batch < MaxBatch
    /\ pendingIds' = setExpanded(pendingIds, id, expanded)
    /\ prevIds' = pendingIds
    /\ log' = << Call("setNodeExpanded", id, expanded) >>
    /\ batch' = batch + 1
    /\ UNCHANGED <<props, internalIds, internalId, pendingId, read, pairVars, scanVars>>

\* setActiveId(id) called through the sidebar context value; id may be null.
SetActiveId(id) ==
    /\ batch < MaxBatch
    /\ pendingId' = setActive(pendingId, id)
    /\ prevIds' = pendingIds
    /\ log' = << Call("setActiveId", id, FALSE) >>
    /\ batch' = batch + 1
    /\ UNCHANGED <<props, internalIds, pendingIds, internalId, read, pairVars, scanVars>>

\* context.toggle() of a node rendered in the last traversal.
CtxToggle(ctx) ==
    /\ batch < MaxBatch
    /\ LET r == ctxToggle(ctx, pendingIds)
       IN  /\ pendingIds' = r.ids
           /\ log' = << Call("toggle", ctx.node.id, FALSE) >> \o r.calls
    /\ prevIds' = pendingIds
    /\ batch' = batch + 1
    /\ UNCHANGED <<props, internalIds, internalId, pendingId, read, pairVars, scanVars>>

\* context.setExpanded(expanded) of a node rendered in the last traversal.
CtxSetExpanded(ctx, expanded) ==
    /\ batch < MaxBatch
    /\ LET r == ctxSetExpanded(ctx, pendingIds, expanded)
       IN  /\ pendingIds' = r.ids
           /\ log' = << Call("setExpanded", ctx.node.id, expanded) >> \o r.calls
    /\ prevIds' = pendingIds
    /\ batch' = batch + 1
    /\ UNCHANGED <<props, internalIds, internalId, pendingId, read, pairVars, scanVars>>

\* context.activate() of a node rendered in the last traversal.
CtxActivate(ctx) ==
    /\ batch < MaxBatch
    /\ LET r == ctxActivate(ctx, pendingId)
       IN  /\ pendingId' = r.id
           /\ log' = << Call("activate", ctx.node.id, FALSE) >> \o r.calls
    /\ prevIds' = pendingIds
    /\ batch' = batch + 1
    /\ UNCHANGED <<props, internalIds, pendingIds, internalId, read, pairVars, scanVars>>

\* The handler has returned and React renders again with the same props:
\* both useState cells take the result of their queue.
Render ==
    /\ batch > 0
    /\ internalIds' = pendingIds
    /\ internalId' = pendingId
    /\ batch' = 0
    /\ UNCHANGED <<props, pendingIds, pendingId, log, prevIds, read, pairVars, scanVars>>

\* The parent renders the Sidebar with other values of the props it controls;
\* a prop it does not provide stays absent.
ParentRender(e, a) ==
    /\ <<e, a>> # <<props.expandedIds, props.activeId>>
    /\ e.given = props.expandedIds.given
    /\ (a = Undefined) = (props.activeId = Undefined)
    /\ props' = [props EXCEPT !.expandedIds = e, !.activeId = a]
    /\ internalIds' = pendingIds
    /\ internalId' = pendingId
    /\ batch' = 0
    /\ UNCHANGED <<pendingIds, pendingId, log, prevIds, read, pairVars, scanVars>>

Next ==
    \/ \E id \in AllIds : ToggleNode(id)
    \/ \E id \in AllIds, expanded \in BOOLEAN : SetNodeExpanded(id, expanded)
    \/ \E id \in AllIds \cup {Null} : SetActiveId(id)
    \/ \E ctx \in Visible : CtxToggle(ctx)
    \/ \E ctx \in Visible, expanded \in BOOLEAN : CtxSetExpanded(ctx, expanded)
    \/ \E ctx \in Visible : CtxActivate(ctx)
    \/ Render
    \/ \E e \in ExpandedIdsProps, a \in ActiveIdProps : ParentRender(e, a)

Spec == Init /\ [][Next]_vars

\* The Sidebar driven through the render contexts alone, as the renderers
\* drive it: every mutator call is one of a context of the last traversal.
NextCtx ==
    \/ \E ctx \in Visible : CtxToggle(ctx)
    \/ \E ctx \in Visible, expanded \in BOOLEAN : CtxSetExpanded(ctx, expanded)
    \/ \E ctx \in Visible : CtxActivate(ctx)
    \/ Render
    \/ \E e \in ExpandedIdsProps, a \in ActiveIdProps : ParentRender(e, a)

SpecCtx == Init /\ [][NextCtx]_vars

TypeOK ==
    /\ internalIds \subseteq AllIds
    /\ pendingIds \subseteq AllIds
    /\ internalId \in AllIds \cup {Null}
    /\ pendingId \in AllIds \cup {Null}
    /\ batch \in 0..MaxBatch

\* ---------------------------------------------------------------------------
\* Traversal of other forests
\* ---------------------------------------------------------------------------

\* Scenario forest: one branch with two leaves.
\*   docs - intro, api
ScenarioForest ==
    << BranchNode("docs", FALSE, << LeafNode("intro", FALSE), LeafNode("api", FALSE) >>) >>

\* A single root with three children, the middle one a branch with one leaf.
\*   p - q, r - s, t
WideRoot ==
    BranchNode("p", FALSE,
               << LeafNode("q", FALSE),
                  BranchNode("r", FALSE, << LeafNode("s", FALSE) >>),
                  LeafNode("t", FALSE) >>)

\* Values of the data prop: a list of roots, or one root.
ForestData == [isArray |-> TRUE, value |-> Forest]
ScenarioData == [isArray |-> TRUE, value |-> ScenarioForest]
WideData == [isArray |-> FALSE, value |-> WideRoot]

\* The ids of the nodes of a data prop.
IdsOf(data) == {n.id : n \in NodesOfList(normalizeData(data), 1)}

\* Mounts of a forest, <<expandedIds, defaultExpandedIds, defaultExpandAll>>:
\* uncontrolled and empty, uncontrolled with every id (leaf ids included) as
\* defaultExpandedIds, controlled with every id, and defaultExpandAll without
\* and with defaultExpandedIds.
TreeMountProps(d) ==
    { [ data               |-> d,
        expandedIds        |-> m[1],
        activeId           |-> Undefined,
        defaultExpandedIds |-> m[2],
        defaultExpandAll   |-> m[3],
        defaultActiveId    |-> Undefined,
        onToggle           |-> TRUE,
        onActivate         |-> TRUE ] :
      m \in { <<NotProvided, NotProvided, FALSE>>,
              <<NotProvided, Provided(IdsOf(d)), FALSE>>,
              <<Provided(IdsOf(d)), NotProvided, FALSE>>,
              <<NotProvided, NotProvided, TRUE>>,
              <<NotProvided, Provided(IdsOf(d)), TRUE>> } }

InitTree ==
    /\ \/ props \in TreeMountProps(ForestData)
       \/ props \in TreeMountProps(ScenarioData)
       \/ props \in TreeMountProps(WideData)
    /\ internalIds = initialIds(props)
    /\ pendingIds = internalIds
    /\ internalId = initialId(props)
    /\ pendingId = internalId
    /\ log = << >>
    /\ prevIds = internalIds
    /\ batch = 0
    /\ read = << >>
    /\ NotPaired
    /\ NotScanning

\* The expansion mutators and the render that follows them.
NextTree ==
    \/ \E id \in AllIds : ToggleNode(id)
    \/ \E id \in AllIds, expanded \in BOOLEAN : SetNodeExpanded(id, expanded)
    \/ \E ctx \in Visible : CtxToggle(ctx)
    \/ \E ctx \in Visible, expanded \in BOOLEAN : CtxSetExpanded(ctx, expanded)
    \/ Render

SpecTree == InitTree /\ [][NextTree]_vars

\* ---------------------------------------------------------------------------
\* Renders with other data and defaults
\* ---------------------------------------------------------------------------

\* Values a parent passes for defaultExpandedIds.
DefaultIdsProps == {NotProvided, Provided({"a", "docs"})}

\* An uncontrolled Sidebar with the given data and expansion defaults.
UncontrolledProps(data, defaultIds, expandAll) ==
    [ data               |-> data,
      expandedIds        |-> NotProvided,
      activeId           |-> Undefined,
      defaultExpandedIds |-> defaultIds,
      defaultExpandAll   |-> expandAll,
      defaultActiveId    |-> Undefined,
      onToggle           |-> TRUE,
      onActivate         |-> TRUE ]

InitRerender ==
    /\ props \in { UncontrolledProps(d, ids, all) :
                     d \in {ForestData, ScenarioData},
                     ids \in DefaultIdsProps,
                     all \in BOOLEAN }
    /\ internalIds = initialIds(props)
    /\ pendingIds = internalIds
    /\ internalId = initialId(props)
    /\ pendingId = internalId
    /\ log = << >>
    /\ prevIds = internalIds
    /\ batch = 0
    /\ read = << >>
    /\ NotPaired
    /\ NotScanning

\* PropsRender that takes the recomputed initialIds as the state.
PropsRender_reinit(data, defaultIds, expandAll) ==
    /\ props' = [props EXCEPT !.data = data,
                              !.defaultExpandedIds = defaultIds,
                              !.defaultExpandAll = expandAll]
    /\ props' # props
    /\ internalIds' = initialIds(props')
    /\ pendingIds' = initialIds(props')
    /\ internalId' = pendingId
    /\ batch' = 0
    /\ UNCHANGED <<pendingId, log, prevIds, read, pairVars, scanVars>>

\* The parent renders the Sidebar with another tree or other expansion
\* defaults: useMemo computes initialIds again, useState ignores its argument
\* after the mount and returns the state with its queue applied.
PropsRender(data, defaultIds, expandAll) ==
    /\ props' = [props EXCEPT !.data = data,
                              !.defaultExpandedIds = defaultIds,
                              !.defaultExpandAll = expandAll]
    /\ props' # props
    /\ internalIds' = pendingIds
    /\ internalId' = pendingId
    /\ batch' = 0
    /\ UNCHANGED <<pendingIds, pendingId, log, prevIds, read, pairVars, scanVars>>

NextRerender ==
    \/ \E id \in AllIds : ToggleNode(id)
    \/ \E id \in AllIds, expanded \in BOOLEAN : SetNodeExpanded(id, expanded)
    \/ Render
    \/ \E d \in {ForestData, ScenarioData}, ids \in DefaultIdsProps, all \in BOOLEAN :
          PropsRender(d, ids, all)

SpecRerender == InitRerender /\ [][NextRerender]_vars

\* ---------------------------------------------------------------------------
\* Scenario: <Sidebar data={[docs]} /> with nothing else
\* ---------------------------------------------------------------------------

InitScenario ==
    /\ props = UncontrolledProps(ScenarioData, NotProvided, FALSE)
    /\ internalIds = initialIds(props)
    /\ pendingIds = internalIds
    /\ internalId = initialId(props)
    /\ pendingId = internalId
    /\ log = << >>
    /\ prevIds = internalIds
    /\ batch = 0
    /\ read = << >>
    /\ NotPaired
    /\ NotScanning

\* Every mutator, and the render that follows; the props stay as mounted.
NextScenario ==
    \/ \E id \in AllIds : ToggleNode(id)
    \/ \E id \in AllIds, expanded \in BOOLEAN : SetNodeExpanded(id, expanded)
    \/ \E id \in AllIds \cup {Null} : SetActiveId(id)
    \/ \E ctx \in Visible : CtxToggle(ctx)
    \/ \E ctx \in Visible, expanded \in BOOLEAN : CtxSetExpanded(ctx, expanded)
    \/ \E ctx \in Visible : CtxActivate(ctx)
    \/ Render

SpecScenario == InitScenario /\ [][NextScenario]_vars

\* ---------------------------------------------------------------------------
\* Scenario Sidebar whose parent starts or stops passing the controlled props
\* ---------------------------------------------------------------------------

ModeIdsProps == {NotProvided, Provided({}), Provided({"docs"})}
ModeActiveProps == {Undefined, Null, "api"}

\* The parent renders the Sidebar with any value of expandedIds and activeId,
\* undefined included; both useState cells keep what they hold.
ModeRender(e, a) ==
    /\ props' = [props EXCEPT !.expandedIds = e, !.activeId = a]
    /\ props' # props
    /\ internalIds' = pendingIds
    /\ internalId' = pendingId
    /\ batch' = 0
    /\ UNCHANGED <<pendingIds, pendingId, log, prevIds, read, pairVars, scanVars>>

NextMode ==
    \/ \E id \in AllIds : ToggleNode(id)
    \/ \E id \in AllIds \cup {Null} : SetActiveId(id)
    \/ Render
    \/ \E e \in ModeIdsProps, a \in ModeActiveProps : ModeRender(e, a)

SpecMode == InitScenario /\ [][NextMode]_vars

\* ---------------------------------------------------------------------------
\* DefaultNodeRenderer.tsx and CustomRenderer.tsx: the DOM event handlers
\* ---------------------------------------------------------------------------

\* renderNode of the Sidebar: absent, or the DocsNodeRenderer.
RenderNodeProps == {Undefined, "DocsNodeRenderer"}

\* const Renderer = renderNode ?? DefaultNodeRenderer
Renderer ==
    IF props.renderNode = Undefined THEN "DefaultNodeRenderer" ELSE props.renderNode

RendererProps ==
    { [ data               |-> ForestData,
        expandedIds        |-> e,
        activeId           |-> a,
        defaultExpandedIds |-> NotProvided,
        defaultExpandAll   |-> FALSE,
        defaultActiveId    |-> Undefined,
        onToggle           |-> TRUE,
        onActivate         |-> TRUE,
        renderNode         |-> r ] :
      e \in {NotProvided, Provided({"a", "b"})},
      a \in {Undefined, "c"},
      r \in RenderNodeProps }

InitRenderer ==
    /\ props \in RendererProps
    /\ internalIds = initialIds(props)
    /\ pendingIds = internalIds
    /\ internalId = initialId(props)
    /\ pendingId = internalId
    /\ log = << >>
    /\ prevIds = internalIds
    /\ batch = 0
    /\ read = << >>
    /\ NotPaired
    /\ NotScanning

\* const isDisabled = node.disabled ?? false
isDisabled(ctx) == ctx.node.disabled

\* handleClick of both renderers: does it reach activate()?
handleClick(ctx) == ~isDisabled(ctx)

\* One DOM event handler run to its end on the context of the last render:
\* activate() first if the handler calls it, then toggle() if it calls it.
\* React renders after the handler has returned and before the next event.
Handle(event, ctx, callsActivate, callsToggle) ==
    LET ra == IF callsActivate
              THEN ctxActivate(ctx, pendingId)
              ELSE [id |-> pendingId, calls |-> << >>]
        rt == IF callsToggle
              THEN ctxToggle(ctx, pendingIds)
              ELSE [ids |-> pendingIds, calls |-> << >>]
    IN  /\ batch = 0
        /\ pendingId' = ra.id
        /\ pendingIds' = rt.ids
        /\ log' = << Call(event, ctx.node.id, FALSE) >>
                  \o (IF callsActivate
                      THEN << Call("activate", ctx.node.id, FALSE) >> \o ra.calls
                      ELSE << >>)
                  \o (IF callsToggle
                      THEN << Call("toggle", ctx.node.id, FALSE) >> \o rt.calls
                      ELSE << >>)
        /\ prevIds' = pendingIds
        /\ batch' = (IF callsActivate THEN 1 ELSE 0) + (IF callsToggle THEN 1 ELSE 0)
        /\ UNCHANGED <<props, internalIds, internalId, read, pairVars, scanVars>>

\* DefaultNodeRenderer: click on the row, a Link or a div, both with
\* onClick={handleClick}.
RowClick(ctx) ==
    /\ Renderer = "DefaultNodeRenderer"
    /\ Handle("rowClick", ctx, handleClick(ctx), FALSE)

\* Click on the chevron button of either renderer; the button exists if
\* hasChildren and a disabled button receives no click.
ChevronClick(ctx) ==
    /\ ctx.hasChildren
    /\ ~isDisabled(ctx)
    /\ Handle("chevronClick", ctx, FALSE, TRUE)

\* DefaultNodeRenderer: Enter or Space on the focused row.  Only the div has
\* onKeyDown, and the div is rendered unless the node has a href and is enabled.
KeyDown(ctx, hasHref) ==
    /\ Renderer = "DefaultNodeRenderer"
    /\ ~(hasHref /\ ~isDisabled(ctx))
    /\ Handle("keyDown", ctx, handleClick(ctx), ctx.hasChildren)

\* DocsNodeRenderer: click on the name.  A branch with children and without
\* href has onClick={() => toggle()}; every other name has handleClick.
NameClick(ctx, hasHref) ==
    /\ Renderer = "DocsNodeRenderer"
    /\ IF ctx.hasChildren /\ ~hasHref
       THEN Handle("nameClick", ctx, FALSE, TRUE)
       ELSE Handle("nameClick", ctx, handleClick(ctx), FALSE)

RendererEvents == {"rowClick", "chevronClick", "keyDown", "nameClick"}

NextRenderer ==
    \/ \E ctx \in Visible : RowClick(ctx)
    \/ \E ctx \in Visible : ChevronClick(ctx)
    \/ \E ctx \in Visible, hasHref \in BOOLEAN : KeyDown(ctx, hasHref)
    \/ \E ctx \in Visible, hasHref \in BOOLEAN : NameClick(ctx, hasHref)
    \/ Render

SpecRenderer == InitRenderer /\ [][NextRenderer]_vars

\* ---------------------------------------------------------------------------
\* context.ts: the React context of the Sidebar and its hook
\* ---------------------------------------------------------------------------

DEFAULT_INDENT_SIZE == 16

\* createContext<SidebarContextValue | null>(null): what useContext returns
\* where no SidebarProvider is above the caller.
SidebarContext == NotProvided

\* The value Sidebar gives to SidebarProvider: the data fields of contextValue
\* (the three mutators are the actions of this module).
contextValue ==
    [activeId    |-> activeId,
     expandedIds |-> expandedIds,
     indentSize  |-> DEFAULT_INDENT_SIZE,
     onToggle    |-> props.onToggle,
     onActivate  |-> props.onActivate]

\* useContext(SidebarContext) of a component below the Sidebar's provider, or
\* of one that has no provider above it.
useContext(inside) ==
    IF inside THEN Provided(contextValue) ELSE SidebarContext

\* The hook handing out an empty context where there is no provider.
useSidebarContext_fallback(context) ==
    IF ~context.given
    THEN [threw |-> FALSE, message |-> "",
          value |-> << [activeId    |-> Null,
                        expandedIds |-> {},
                        indentSize  |-> DEFAULT_INDENT_SIZE,
                        onToggle    |-> FALSE,
                        onActivate  |-> FALSE] >>]
    ELSE [threw |-> FALSE, message |-> "", value |-> << context.value >>]

\* useSidebarContext: throws on null, returns the context otherwise.  value is
\* empty when the call threw and holds the returned context when it did not.
useSidebarContext(context) ==
    IF ~context.given
    THEN [threw   |-> TRUE,
          message |-> "useSidebarContext must be used within a SidebarProvider",
          value   |-> << >>]
    ELSE [threw |-> FALSE, message |-> "", value |-> << context.value >>]

\* A component calls useSidebarContext(); read keeps where it was called, what
\* the nearest provider held and how the call ended.
ReadContext(inside) ==
    /\ read' = << [inside   |-> inside,
                   provided |-> IF inside THEN << contextValue >> ELSE << >>,
                   result   |-> useSidebarContext(useContext(inside))] >>
    /\ UNCHANGED <<props, internalIds, pendingIds, internalId, pendingId, log,
                   prevIds, batch, pairVars, scanVars>>

\* The scenario Sidebar with components reading its context, inside and outside.
NextRead ==
    \/ \E id \in AllIds : ToggleNode(id)
    \/ \E id \in AllIds \cup {Null} : SetActiveId(id)
    \/ Render
    \/ \E inside \in BOOLEAN : ReadContext(inside)

SpecRead == InitScenario /\ [][NextRead]_vars

\* ---------------------------------------------------------------------------
\* data.ts and scanner.ts: the build-time scanner.  Numbers and Array.sort
\* ---------------------------------------------------------------------------

\* While the scanner runs no Sidebar is mounted.
NotMounted ==
    /\ props = << >>
    /\ internalIds = {}
    /\ pendingIds = {}
    /\ internalId = Null
    /\ pendingId = Null
    /\ log = << >>
    /\ prevIds = {}
    /\ batch = 0
    /\ read = << >>
    /\ NotPaired

\* A JavaScript number: finite, or Infinity.
Num(n) == [inf |-> FALSE, n |-> n]
Infinity == [inf |-> TRUE, n |-> 0]

\* What a comparator returns: NaN, or a number of which the sign matters.
NaN == [nan |-> TRUE, v |-> 0]
Ord(k) == [nan |-> FALSE, v |-> IF k < 0 THEN -1 ELSE IF k > 0 THEN 1 ELSE 0]

\* a - b
Minus(a, b) ==
    IF a.inf /\ b.inf THEN NaN
    ELSE IF a.inf THEN Ord(1)
    ELSE IF b.inf THEN Ord(-1)
    ELSE Ord(a.n - b.n)

\* The folder names of the model in the order localeCompare gives them.
FolderNames == << "Angular", "Git", "React" >>

\* a.localeCompare(b)
localeCompare(a, b) ==
    LET at(x) == CHOOSE i \in 1..Len(FolderNames) : FolderNames[i] = x
    IN  Ord(at(a) - at(b))

\* slugify(entry.name) on the folder names of the model.
slugify(text) ==
    CASE text = "Angular" -> "angular"
      [] text = "Git" -> "git"
      [] text = "React" -> "react"

\* created_on values of the model, oldest first.
DateStrings == << "2025-11-20T20:21:51+03:30", "2025-12-21T18:25:44+03:30" >>

\* new Date(created_on).getTime(): NaN for undefined and for what is no date;
\* the milliseconds are kept as the rank of the date.
getTime(created_on) ==
    IF /\ created_on.given
       /\ \E i \in 1..Len(DateStrings) : DateStrings[i] = created_on.value
    THEN [nan |-> FALSE,
          t   |-> CHOOSE i \in 1..Len(DateStrings) : DateStrings[i] = created_on.value]
    ELSE [nan |-> TRUE, t |-> 0]

\* The result of comparefn as Array.prototype.sort uses it: NaN counts as 0.
order(cmp, x, y) == IF cmp[<<x, y>>].nan THEN 0 ELSE cmp[<<x, y>>].v

Reverse(s) == [i \in 1..Len(s) |-> s[Len(s) + 1 - i]]

\* The length of the run the array starts with; i is the next index to test.
RECURSIVE runEnd(_, _, _, _)
runEnd(a, cmp, isDescending, i) ==
    IF i > Len(a) THEN Len(a)
    ELSE LET o == order(cmp, a[i], a[i - 1])
         IN  IF (isDescending /\ o >= 0) \/ (~isDescending /\ o < 0)
             THEN i - 1
             ELSE runEnd(a, cmp, isDescending, i + 1)

\* The initial run, reversed if it is strictly descending.
CountAndMakeRun(a, cmp) ==
    LET isDescending == order(cmp, a[2], a[1]) < 0
        run == runEnd(a, cmp, isDescending, 3)
    IN  [a   |-> IF isDescending
                 THEN Reverse(SubSeq(a, 1, run)) \o SubSeq(a, run + 1, Len(a))
                 ELSE a,
         run |-> run]

\* Where pivot goes among a[left + 1 .. right].
RECURSIVE binarySearch(_, _, _, _, _)
binarySearch(a, cmp, pivot, left, right) ==
    IF left >= right THEN left
    ELSE LET mid == left + ((right - left) \div 2)
         IN  IF order(cmp, pivot, a[mid + 1]) < 0
             THEN binarySearch(a, cmp, pivot, left, mid)
             ELSE binarySearch(a, cmp, pivot, mid + 1, right)

\* The elements from position start on, inserted one by one into the run.
RECURSIVE BinaryInsertionSort(_, _, _)
BinaryInsertionSort(a, cmp, start) ==
    IF start >= Len(a) THEN a
    ELSE LET pivot == a[start + 1]
             left == binarySearch(a, cmp, pivot, 0, start)
         IN  BinaryInsertionSort(
                 SubSeq(a, 1, left) \o << pivot >> \o SubSeq(a, left + 1, start)
                     \o SubSeq(a, start + 2, Len(a)),
                 cmp, start + 1)

\* array.sort(comparefn) as Node runs it on an array shorter than 64: the
\* initial run, then binary insertion.  cmp maps <<x, y>> to comparefn(x, y).
ArraySort(a, cmp) ==
    IF Len(a) < 2 THEN a
    ELSE LET r == CountAndMakeRun(a, cmp)
         IN  BinaryInsertionSort(r.a, cmp, r.run)

Elements(a) == {a[i] : i \in 1..Len(a)}

\* ---------------------------------------------------------------------------
\* data.ts and scanner.ts: sortNodes
\* ---------------------------------------------------------------------------

\* The priority scanner.ts gives to a folder that is not in folderPriority.
ScannerUnlisted == 999

\* Front matter as gray-matter returns it; every field may be absent.
FrontMatter(slug, title, authors, created_on, status, weight) ==
    [slug |-> slug, title |-> title, authors |-> authors,
     created_on |-> created_on, status |-> status, weight |-> weight]

\* The nodes scanDirectory pushes.
ScanBranch(name, children) ==
    [type |-> "branch", id |-> slugify(name), name |-> name, children |-> children]
ScanLeaf(fm) ==
    [type |-> "leaf", id |-> fm.slug.value, name |-> fm.title.value, content |-> fm]

\* m3Config.sidebar.folderPriority[name] ?? unlisted
priorityOf(name, unlisted) ==
    IF name \in DOMAIN m3Config.folderPriority
    THEN Num(m3Config.folderPriority[name])
    ELSE unlisted

\* The comparator of branches.sort.
compareBranches(a, b, unlisted) ==
    LET priorityA == priorityOf(a.name, unlisted)
        priorityB == priorityOf(b.name, unlisted)
    IN  IF priorityA # priorityB
        THEN Minus(priorityA, priorityB)
        ELSE localeCompare(a.name, b.name)

\* a.content.weight ?? Infinity
weightOf(leaf) ==
    IF leaf.content.weight.given THEN Num(leaf.content.weight.value) ELSE Infinity

\* dateB - dateA of two getTime() results.
dateDiff(dateB, dateA) ==
    IF dateB.nan \/ dateA.nan THEN NaN ELSE Ord(dateB.t - dateA.t)

\* The comparator of leaves.sort.
compareLeaves(a, b) ==
    LET weightA == weightOf(a)
        weightB == weightOf(b)
    IN  IF weightA # weightB
        THEN Minus(weightA, weightB)
        ELSE dateDiff(getTime(b.content.created_on), getTime(a.content.created_on))

\* sortNodes with the given priority for unlisted folders.
sortNodesWith(ns, unlisted) ==
    LET branches == SelectSeq(ns, LAMBDA n : n.type = "branch")
        leaves == SelectSeq(ns, LAMBDA n : n.type = "leaf")
        B == Elements(branches)
        L == Elements(leaves)
    IN  ArraySort(branches,
                  [p \in B \X B |-> compareBranches(p[1], p[2], unlisted)])
        \o ArraySort(leaves, [p \in L \X L |-> compareLeaves(p[1], p[2])])

\* data.ts: sortNodes, with ?? Infinity.
sortNodes(ns) == sortNodesWith(ns, Infinity)

\* scanner.ts: sortNodes, with ?? 999.
scanner_sortNodes(ns) == sortNodesWith(ns, Num(ScannerUnlisted))

\* main() after scanDirectory has returned: sortNodes of the running script,
\* then mkdir and writeFile.
WriteOutput ==
    /\ pc = "scanned"
    /\ output' = Provided(IF script = "data.ts"
                          THEN sortNodes(rawNodes)
                          ELSE scanner_sortNodes(rawNodes))
    /\ pc' = "done"
    /\ UNCHANGED <<sidebarVars, script, m3Config, entries, cursor, rawNodes,
                   warnings>>

\* ---------------------------------------------------------------------------
\* sortNodes on the lists scanDirectory can return
\* ---------------------------------------------------------------------------

MaxNodes == 3

\* folderPriority tables over Git and React; Angular is never listed.
Priorities == {1, 2, ScannerUnlisted + 1}
PriorityTables ==
    UNION { [D -> Priorities] : D \in SUBSET {"Git", "React"} }

\* A leaf that passed processLeaf, with or without weight and created_on.
SortLeaf(slug, weight, created_on) ==
    ScanLeaf(FrontMatter(Provided(slug), Provided(slug), Provided("authors"),
                         created_on, Provided("published"), weight))

Weights == {NotProvided, Provided(1), Provided(2)}

\* Leaves with the same weight: an old one, a new one, one without date.
SortLeaves ==
    { SortLeaf("old", w, Provided(DateStrings[1])) : w \in Weights } \cup
    { SortLeaf("new", w, Provided(DateStrings[2])) : w \in Weights } \cup
    { SortLeaf("undated", w, NotProvided) : w \in Weights }

\* Folders that hold one article each (empty ones are not kept).
SortBranches ==
    { ScanBranch(name, << SortLeaf("article", NotProvided, NotProvided) >>) :
        name \in Elements(FolderNames) }

\* Lists of nodes with distinct ids.
RECURSIVE ListsOf(_, _)
ListsOf(S, n) ==
    IF n = 0 THEN { << >> }
    ELSE LET shorter == ListsOf(S, n - 1)
         IN  shorter \cup
             { Append(l, x) : l \in shorter, x \in S } 

DistinctIds(l) == \A i, j \in 1..Len(l) : i # j => l[i].id # l[j].id

Scripts == {"data.ts", "scanner.ts"}

InitSort ==
    /\ NotMounted
    /\ script \in Scripts
    /\ m3Config \in { [folderPriority |-> t, ignoreEmptyBranches |-> TRUE,
                       reportSlugNameMismatch |-> TRUE,
                       reportMissingMetadata |-> TRUE] : t \in PriorityTables }
    /\ entries = << >>
    /\ cursor = 0
    /\ rawNodes \in { l \in ListsOf(SortBranches \cup SortLeaves, MaxNodes) :
                        DistinctIds(l) }
    /\ warnings = << >>
    /\ output = NotProvided
    /\ pc = "scanned"

NextSort == WriteOutput

SpecSort == InitSort /\ [][NextSort]_vars

\* ---------------------------------------------------------------------------
\* data.ts and scanner.ts: scanDirectory and processLeaf
\* ---------------------------------------------------------------------------

\* A directory entry as fs.readdir({withFileTypes: true}) lists it.  A file has
\* its front matter, or the message of the error readFile or matter() throws;
\* a directory has its own entries.
File(name, stem, fm) ==
    [name |-> name, stem |-> stem, kind |-> "file", error |-> Null, fm |-> fm,
     entries |-> << >>]
BadFile(name, stem, message) ==
    [name |-> name, stem |-> stem, kind |-> "file", error |-> message,
     fm |-> << >>, entries |-> << >>]
Directory(name, list) ==
    [name |-> name, stem |-> name, kind |-> "directory", error |-> Null,
     fm |-> << >>, entries |-> list]
Other(name) ==
    [name |-> name, stem |-> name, kind |-> "other", error |-> Null,
     fm |-> << >>, entries |-> << >>]

\* entry.name.startsWith('.') || startsWith('_') || === 'node_modules'
SystemNames == {".git", "_drafts", "node_modules"}

\* /\.(md|mdx)$/.test(entry.name): the Markdown file names of the model.
MarkdownNames ==
    {"good.md", "page.mdx", "noslug.md", "notitle.md", "emptytitle.md",
     "noauthors.md", "nodate.md", "nostatus.md", "renamed.md", "broken.md",
     "intro.md", "torn.md", "wip.md"}
isMarkdown(entry) == entry.name \in MarkdownNames

\* filename.replace(/\.(md|mdx)$/, ''): kept with the entry as its stem.
filenameNoExt(entry) == entry.stem

\* m3Config.articles.requiredMetadata, and the list written out in scanner.ts.
requiredMetadata == << "slug", "title", "authors", "created_on", "status" >>

\* value == null || value === "" of data.ts; !frontMatter[field] of scanner.ts
\* is the same on the strings of the model.
isMissing(value) == ~value.given \/ value.value = ""

\* The outcome of processLeaf: the node it returns (none for null), the
\* warning it registers (none if it registers none), whether it threw.
LeafOutcome(node, warning, threw) ==
    [node |-> node, warning |-> warning, threw |-> threw]

ArticleWarning(missingFields, slugMismatch, badMarkdown) ==
    [missingFields |-> missingFields, slugMismatch |-> slugMismatch,
     badMarkdown |-> badMarkdown]

\* processLeaf of data.ts.
processLeaf(entry) ==
    IF entry.error # Null
    THEN LeafOutcome(<< >>, << ArticleWarning(<< >>, Null, entry.error) >>, FALSE)
    ELSE LET fm == entry.fm
             missingFields ==
                 IF m3Config.reportMissingMetadata
                 THEN SelectSeq(requiredMetadata,
                                LAMBDA field : isMissing(fm[field]))
                 ELSE << >>
             slugMismatch ==
                 IF /\ m3Config.reportSlugNameMismatch
                    /\ ~isMissing(fm.slug)
                    /\ fm.slug.value # filenameNoExt(entry)
                 THEN fm.slug.value ELSE Null
             errorFound == missingFields # << >> \/ slugMismatch # Null
         IN  LeafOutcome(
               IF isMissing(fm.slug) \/ isMissing(fm.title)
               THEN << >> ELSE << ScanLeaf(fm) >>,
               IF errorFound
               THEN << ArticleWarning(missingFields, slugMismatch, Null) >>
               ELSE << >>,
               FALSE)

\* processLeaf of scanner.ts: `const { data }` is declared inside the try
\* block and read after it, so a file that was read and parsed ends in
\* ReferenceError: data is not defined; a file that was not is handled.
scanner_processLeaf(entry) ==
    IF entry.error # Null
    THEN LeafOutcome(<< >>, << ArticleWarning(<< >>, Null, entry.error) >>, FALSE)
    ELSE LeafOutcome(<< >>, << >>, TRUE)

\* What a scan has gathered: the nodes, the warnings by relative path (a list
\* of names), and whether an exception left it.
Gathered(ns, ws, threw) == [nodes |-> ns, warnings |-> ws, threw |-> threw]

RECURSIVE scanDirectory(_, _, _, _)

\* scanEntry that pushes a branch for every directory, whatever the switch.
scanEntry_keepsEmpty(entry, dir, acc) ==
    IF entry.name \in SystemNames THEN acc
    ELSE IF entry.kind = "directory"
    THEN LET sub == scanDirectory(entry.entries, Append(dir, entry.name), 1,
                                  Gathered(<< >>, acc.warnings, FALSE))
         IN  IF sub.threw THEN Gathered(acc.nodes, sub.warnings, TRUE)
             ELSE Gathered(Append(acc.nodes, ScanBranch(entry.name, sortNodes(sub.nodes))),
                           sub.warnings, FALSE)
    ELSE IF entry.kind = "file" /\ isMarkdown(entry)
    THEN LET r == IF script = "data.ts" THEN processLeaf(entry)
                  ELSE scanner_processLeaf(entry)
             ws == IF r.warning = << >> THEN acc.warnings
                   ELSE (Append(dir, entry.name) :> r.warning[1]) @@ acc.warnings
         IN  Gathered(acc.nodes \o r.node, ws, r.threw)
    ELSE acc

\* One round of the for loop of scanDirectory on entry, in the directory whose
\* relative path is dir.
scanEntry(entry, dir, acc) ==
    IF entry.name \in SystemNames THEN acc
    ELSE IF entry.kind = "directory"
    THEN LET sub == scanDirectory(entry.entries, Append(dir, entry.name), 1,
                                  Gathered(<< >>, acc.warnings, FALSE))
             sorted == IF script = "data.ts" THEN sortNodes(sub.nodes)
                       ELSE scanner_sortNodes(sub.nodes)
         IN  IF sub.threw THEN Gathered(acc.nodes, sub.warnings, TRUE)
             ELSE IF Len(sub.nodes) > 0 \/ ~m3Config.ignoreEmptyBranches
             THEN Gathered(Append(acc.nodes, ScanBranch(entry.name, sorted)),
                           sub.warnings, FALSE)
             ELSE Gathered(acc.nodes, sub.warnings, FALSE)
    ELSE IF entry.kind = "file" /\ isMarkdown(entry)
    THEN LET r == IF script = "data.ts" THEN processLeaf(entry)
                  ELSE scanner_processLeaf(entry)
             path == Append(dir, entry.name)
             ws == IF r.warning = << >> THEN acc.warnings
                   ELSE (path :> r.warning[1]) @@ acc.warnings
         IN  Gathered(acc.nodes \o r.node, ws, r.threw)
    ELSE acc

\* scanDirectory from its i-th entry on.
scanDirectory(list, dir, i, acc) ==
    IF i > Len(list) \/ acc.threw THEN acc
    ELSE scanDirectory(list, dir, i + 1, scanEntry(list[i], dir, acc))

\* main() runs the loop of scanDirectory(articlesDir) on its next entry; an
\* exception goes to the catch of main: Fatal Error and process.exit(1).
ScanEntry ==
    /\ pc = "scan"
    /\ cursor <= Len(entries)
    /\ LET r == scanEntry(entries[cursor], << >>,
                          Gathered(rawNodes, warnings, FALSE))
       IN  /\ rawNodes' = r.nodes
           /\ warnings' = r.warnings
           /\ IF r.threw
              THEN pc' = "failed" /\ cursor' = cursor
              ELSE pc' = pc /\ cursor' = cursor + 1
    /\ UNCHANGED <<sidebarVars, script, m3Config, entries, output>>

\* The loop is over: scanDirectory returns its nodes to main.
ScanReturn ==
    /\ pc = "scan"
    /\ cursor > Len(entries)
    /\ pc' = "scanned"
    /\ UNCHANGED <<sidebarVars, script, m3Config, entries, cursor, rawNodes,
                   warnings, output>>

\* The articles directories of the model ---------------------------------------

MaxEntries == 3

Article(slug, title, authors, created_on, status) ==
    FrontMatter(slug, title, authors, created_on, status, NotProvided)

\* Front matter without defect for the file called stem.
Sound(stem) ==
    Article(Provided(stem), Provided("Title"), Provided("Megacodist"),
            Provided(DateStrings[1]), Provided("published"))

GoodFiles ==
    { File("good.md", "good", Sound("good")),
      File("intro.md", "intro", Sound("intro")),
      File("page.mdx", "page", [Sound("page") EXCEPT !.weight = Provided(1)]) }

\* Files that lack slug or title.
DroppedFiles ==
    { File("noslug.md", "noslug", [Sound("noslug") EXCEPT !.slug = NotProvided]),
      File("notitle.md", "notitle", [Sound("notitle") EXCEPT !.title = NotProvided]),
      File("emptytitle.md", "emptytitle",
           [Sound("emptytitle") EXCEPT !.title = Provided("")]) }

\* Files that have both and another defect.
FlaggedFiles ==
    { File("noauthors.md", "noauthors",
           [Sound("noauthors") EXCEPT !.authors = NotProvided]),
      File("nodate.md", "nodate", [Sound("nodate") EXCEPT !.created_on = NotProvided]),
      File("nostatus.md", "nostatus", [Sound("nostatus") EXCEPT !.status = NotProvided]),
      File("renamed.md", "renamed", Sound("react-hooks")) }

\* A work in progress: status wip, nothing lacking.
WipFiles ==
    { File("wip.md", "wip", [Sound("wip") EXCEPT !.status = Provided("wip")]) }

\* Files readFile or matter() throws on, with the message of the error.
BadFiles ==
    { BadFile("broken.md", "broken", "EACCES: permission denied"),
      BadFile("torn.md", "torn", "can not read a block mapping entry") }

\* What the scan passes over.
IgnoredEntries ==
    { Directory(".git", << >>), File("notes.txt", "notes.txt", Sound("notes")),
      Other("socket") }

Directories ==
    { Directory("Git", << File("intro.md", "intro", Sound("intro")),
                          BadFile("broken.md", "broken", "EACCES: permission denied") >>),
      Directory("React", << >>),
      Directory("Angular", << Directory("React", << >>),
                              File("noslug.md", "noslug",
                                   [Sound("noslug") EXCEPT !.slug = NotProvided]) >>) }

DirEntries ==
    GoodFiles \cup DroppedFiles \cup FlaggedFiles \cup WipFiles \cup BadFiles
        \cup IgnoredEntries \cup Directories

\* readdir lists every name once.
DistinctNames(l) == \A i, j \in 1..Len(l) : l[i].name = l[j].name => i = j

\* m3Config as both configuration files have it, for the folders of the model;
\* InitScan takes the switch ignoreEmptyBranches either way.
ScanConfig ==
    [folderPriority |-> ("React" :> 2) @@ ("Git" :> 3),
     ignoreEmptyBranches |-> TRUE, reportSlugNameMismatch |-> TRUE,
     reportMissingMetadata |-> TRUE]

\* main() is about to call scanDirectory(articlesDir); warnings is {}.
InitScan ==
    /\ NotMounted
    /\ script \in Scripts
    /\ m3Config \in { [ScanConfig EXCEPT !.ignoreEmptyBranches = switch] :
                        switch \in BOOLEAN }
    /\ entries \in { l \in ListsOf(DirEntries, MaxEntries) : DistinctNames(l) }
    /\ pc = "scan"
    /\ cursor = 1
    /\ rawNodes = << >>
    /\ warnings = << >>
    /\ output = NotProvided

NextScan == ScanEntry \/ ScanReturn \/ WriteOutput

SpecScan == InitScan /\ [][NextScan]_vars

\* ---------------------------------------------------------------------------
\* A Sidebar whose branches are toggled while a component below the provider
\* reads the context
\* ---------------------------------------------------------------------------

NextReopen ==
    \/ \E ctx \in Visible : CtxToggle(ctx)
    \/ \E ctx \in Visible, expanded \in BOOLEAN : CtxSetExpanded(ctx, expanded)
    \/ Render
    \/ ReadContext(TRUE)

SpecReopen == InitTree /\ [][NextReopen]_vars

\* ---------------------------------------------------------------------------
\* A controlled Sidebar whose parent keeps the Set it passes as expandedIds,
\* and an uncontrolled Sidebar with the same data next to it
\* ---------------------------------------------------------------------------

\* The sets the two Sidebars are started from.
PairSets == { {}, {"a"}, {"a", "b", "e"} }

\* const [expandedIds, setExpandedIds] = useState(S) of the parent, passed as
\* <Sidebar expandedIds={expandedIds} onToggle={...}/>.
PairProps(S) ==
    [ data               |-> ForestData,
      expandedIds        |-> Provided(S),
      activeId           |-> Undefined,
      defaultExpandedIds |-> NotProvided,
      defaultExpandAll   |-> FALSE,
      defaultActiveId    |-> Undefined,
      onToggle           |-> TRUE,
      onActivate         |-> TRUE ]

\* The uncontrolled Sidebar: <Sidebar defaultExpandedIds={S}/>.
TwinProps(S) ==
    [PairProps(S) EXCEPT !.expandedIds = NotProvided,
                         !.defaultExpandedIds = Provided(S)]

InitPair ==
    /\ \E S \in PairSets :
          /\ props = PairProps(S)
          /\ ownerIds = Provided(S)
          /\ twin = Provided([internalIds |-> initialIds(TwinProps(S)),
                              pendingIds  |-> initialIds(TwinProps(S))])
    /\ internalIds = initialIds(props)
    /\ pendingIds = internalIds
    /\ internalId = initialId(props)
    /\ pendingId = internalId
    /\ log = << >>
    /\ prevIds = internalIds
    /\ batch = 0
    /\ read = << >>
    /\ NotScanning

\* The parent's onToggle: (node, expanded) => setExpandedIds(prev => ...), the
\* id added when expanded is true and deleted when it is false; applied to the
\* onToggle calls among calls, from the i-th on.
RECURSIVE ownerUpdate(_, _, _)
ownerUpdate(prev, calls, i) ==
    IF i > Len(calls) THEN prev
    ELSE ownerUpdate(IF calls[i].ev # "onToggle" THEN prev
                     ELSE IF calls[i].flag THEN prev \cup {calls[i].id}
                     ELSE prev \ {calls[i].id},
                     calls, i + 1)

\* The same user event on both Sidebars: context.toggle() of the node of ctx.
PairToggle(ctx) ==
    /\ batch < MaxBatch
    /\ LET r == ctxToggle(ctx, pendingIds)
       IN  /\ pendingIds' = r.ids
           /\ log' = << Call("toggle", ctx.node.id, FALSE) >> \o r.calls
           /\ ownerIds' = Provided(ownerUpdate(ownerIds.value, r.calls, 1))
    /\ twin' = IF ctx.node.type # "branch" THEN twin
               ELSE Provided([twin.value EXCEPT
                        !.pendingIds = toggleUpdater(@, ctx.node.id)])
    /\ prevIds' = pendingIds
    /\ batch' = batch + 1
    /\ UNCHANGED <<props, internalIds, internalId, pendingId, read, scanVars>>

\* The same user event on both: context.setExpanded(expanded).
PairSetExpanded(ctx, expanded) ==
    /\ batch < MaxBatch
    /\ LET r == ctxSetExpanded(ctx, pendingIds, expanded)
       IN  /\ pendingIds' = r.ids
           /\ log' = << Call("setExpanded", ctx.node.id, expanded) >> \o r.calls
           /\ ownerIds' = Provided(ownerUpdate(ownerIds.value, r.calls, 1))
    /\ twin' = IF ctx.node.type # "branch" THEN twin
               ELSE Provided([twin.value EXCEPT
                        !.pendingIds = setExpandedUpdater(@, ctx.node.id, expanded)])
    /\ prevIds' = pendingIds
    /\ batch' = batch + 1
    /\ UNCHANGED <<props, internalIds, internalId, pendingId, read, scanVars>>

\* The handler has returned: the parent renders the controlled Sidebar with
\* its Set, and the uncontrolled one renders with the result of its queue.
PairRender ==
    /\ batch > 0
    /\ props' = [props EXCEPT !.expandedIds = ownerIds]
    /\ internalIds' = pendingIds
    /\ internalId' = pendingId
    /\ twin' = Provided([twin.value EXCEPT !.internalIds = twin.value.pendingIds])
    /\ batch' = 0
    /\ UNCHANGED <<pendingIds, pendingId, log, prevIds, read, ownerIds, scanVars>>

NextPair ==
    \/ \E ctx \in Visible : PairToggle(ctx)
    \/ \E ctx \in Visible, expanded \in BOOLEAN : PairSetExpanded(ctx, expanded)
    \/ PairRender

SpecPair == InitPair /\ [][NextPair]_vars

\* ---------------------------------------------------------------------------
\* DocsSidebar.tsx: the Sidebar of the documentation pages
\* ---------------------------------------------------------------------------

\* Nodes of SidebarNode<string>: content is the URL of the page, if any.
DocLeaf(id, content) ==
    [id |-> id, type |-> "leaf", disabled |-> FALSE, content |-> content]
DocBranch(id, content, children) ==
    [id |-> id, type |-> "branch", disabled |-> FALSE, content |-> content,
     children |-> children]

\* docsNavigation, with one child kept in every branch.
\*   home
\*   getting-started - installation
\*   guides (a page of its own) - authentication - auth-oauth
docsNavigation ==
    << DocLeaf("home", "/docs"),
       DocBranch("getting-started", Undefined,
                 << DocLeaf("installation", "/docs/installation") >>),
       DocBranch("guides", "/docs/guides",
                 << DocBranch("authentication", Undefined,
                              << DocLeaf("auth-oauth", "/docs/guides/auth/oauth") >>) >>) >>

\* usePathname(): the pages of docsNavigation and one that is none of them.
Pathnames ==
    {"/docs", "/docs/installation", "/docs/guides", "/docs/guides/auth/oauth",
     "/docs/changelog"}

\* findActiveNode, from the i-th node of the list on; a found id is returned
\* if it is truthy.
RECURSIVE findActiveNode(_, _, _)
findActiveNode(list, i, pathname) ==
    IF i > Len(list) THEN Null
    ELSE IF list[i].content = pathname THEN list[i].id
    ELSE LET found == IF list[i].type = "branch" /\ Len(list[i].children) > 0
                      THEN findActiveNode(list[i].children, 1, pathname)
                      ELSE Null
         IN  IF found # Null /\ found # "" THEN found
             ELSE findActiveNode(list, i + 1, pathname)

RECURSIVE findParentIds(_, _, _, _)
\* findParentIds that hands down the id of the branch alone.
findParentIds_parentOnly(list, i, targetId, parents) ==
    IF i > Len(list) THEN NotProvided
    ELSE IF list[i].id = targetId THEN Provided(parents)
    ELSE LET found == IF list[i].type = "branch"
                      THEN findParentIds(list[i].children, 1, targetId,
                                         << list[i].id >>)
                      ELSE NotProvided
         IN  IF found.given THEN found
             ELSE findParentIds(list, i + 1, targetId, parents)

\* findParentIds, from the i-th node of the list on: null, or the array of the
\* ancestors (an array is truthy even when empty).
findParentIds(list, i, targetId, parents) ==
    IF i > Len(list) THEN NotProvided
    ELSE IF list[i].id = targetId THEN Provided(parents)
    ELSE LET found == IF list[i].type = "branch"
                      THEN findParentIds(list[i].children, 1, targetId,
                                         Append(parents, list[i].id))
                      ELSE NotProvided
         IN  IF found.given THEN found
             ELSE findParentIds(list, i + 1, targetId, parents)

\* The defaultExpandedIds DocsSidebar computes for an active id.
defaultExpandedIds(id) ==
    IF id = Null \/ id = "" THEN {}
    ELSE LET parentIds == findParentIds(docsNavigation, 1, id, << >>)
         IN  IF parentIds.given
             THEN {parentIds.value[k] : k \in 1..Len(parentIds.value)}
             ELSE {}

\* The props DocsSidebar renders the Sidebar with on a pathname.
DocsSidebar(pathname) ==
    LET id == findActiveNode(docsNavigation, 1, pathname)
    IN  [ data               |-> [isArray |-> TRUE, value |-> docsNavigation],
          expandedIds        |-> NotProvided,
          activeId           |-> id,
          defaultExpandedIds |-> Provided(defaultExpandedIds(id)),
          defaultExpandAll   |-> FALSE,
          defaultActiveId    |-> Undefined,
          onToggle           |-> FALSE,
          onActivate         |-> TRUE ]

\* DocsSidebar mounts on a page.
InitDocs ==
    /\ props \in { DocsSidebar(pathname) : pathname \in Pathnames }
    /\ internalIds = initialIds(props)
    /\ pendingIds = internalIds
    /\ internalId = initialId(props)
    /\ pendingId = internalId
    /\ log = << >>
    /\ prevIds = internalIds
    /\ batch = 0
    /\ read = << >>
    /\ NotPaired
    /\ NotScanning

\* The router moves to another page: DocsSidebar renders with the new
\* pathname, both useMemo values are computed again, and the Sidebar, already
\* mounted, keeps its expanded set.
Navigate(pathname) ==
    /\ props' = DocsSidebar(pathname)
    /\ props' # props
    /\ internalIds' = pendingIds
    /\ internalId' = pendingId
    /\ batch' = 0
    /\ UNCHANGED <<pendingIds, pendingId, log, prevIds, read, pairVars, scanVars>>

NextDocs ==
    \/ \E ctx \in Visible : CtxToggle(ctx)
    \/ \E ctx \in Visible : CtxActivate(ctx)
    \/ Render
    \/ \E pathname \in Pathnames : Navigate(pathname)

SpecDocs == InitDocs /\ [][NextDocs]_vars

\* ---------------------------------------------------------------------------
\* Reading the log
\* ---------------------------------------------------------------------------

BranchIds == collectBranchIds(nodes)
LeafIds == AllIds \ BranchIds

\* The handler made the call ev(id, flag).
Made(l, ev, id, flag) ==
    \E i \in 1..Len(l) : l[i] = Call(ev, id, flag)

\* How many calls of ev the handler made.
Count(l, ev) == Cardinality({i \in 1..Len(l) : l[i].ev = ev})

\* The step is a mutator invocation.
IsCall == batch' = batch + 1

\* ---------------------------------------------------------------------------
\* Properties
\* ---------------------------------------------------------------------------

\* What a controlled reconciler reports is the prop it was given.
ReadThrough ==
    /\ props.expandedIds.given =>
          /\ expandedIds = props.expandedIds.value
          /\ \A id \in AllIds : isExpanded(id) <=> id \in props.expandedIds.value
    /\ props.activeId # Undefined =>
          /\ activeId = props.activeId
          /\ \A id \in AllIds : isActive(id) <=> id = props.activeId

\* A controlled reconciler never writes its internal store.
ControlledFrame ==
    /\ props.expandedIds.given => UNCHANGED <<internalIds, pendingIds>>
    /\ props.activeId # Undefined => UNCHANGED <<internalId, pendingId>>

\* C1: in controlled mode (expandedIds provided, the empty set included;
\* activeId provided, null included) the reported expanded set, isExpanded and
\* the reported active id equal the provided values after any sequence of
\* toggle, setExpanded and setActive calls, and the internal stores are never
\* written.
C1_ControlledReadThrough == []ReadThrough /\ [][ControlledFrame]_vars

\* Both reconcilers controlled, with the empty set and null, after two calls.
C1_Witness ==
    /\ props.expandedIds = Provided({})
    /\ props.activeId = Null
    /\ batch = 2
    /\ Made(log, "toggleNode", "a", FALSE)
    /\ ~isExpanded("a")

\* C2: in uncontrolled mode, for every branch id x, a toggle(x) that follows a
\* toggle(x) gives x the membership it had before the first of the two, in the
\* same batch or with a render between them, and the next render reports the
\* store.
C2_DoubleToggle ==
    [][ ~isControlledExpanded =>
          /\ \A x \in BranchIds :
                ( /\ IsCall
                  /\ Made(log, "toggleNode", x, FALSE)
                  /\ Made(log', "toggleNode", x, FALSE) )
                => ((x \in pendingIds') <=> (x \in prevIds))
          /\ (batch' = 0) => \A x \in BranchIds : isExpanded(x)' <=> (x \in pendingIds)
      ]_vars

\* toggle(a); toggle(a) in one batch: a collapsed before and after, expanded between.
C2_Witness ==
    /\ ~isControlledExpanded
    /\ batch = 2
    /\ Made(log, "toggleNode", "a", FALSE)
    /\ "a" \in prevIds
    /\ "a" \notin pendingIds
    /\ "a" \notin internalIds

\* C3: in uncontrolled mode, for every id x and boolean b, setExpanded(x, b)
\* leaves x with membership b, and a setExpanded(x, b) that follows a
\* setExpanded(x, b) leaves the expanded set as the first one left it.
C3_SetExpandedIdempotent ==
    [][ (~isControlledExpanded /\ IsCall) =>
          \A x \in AllIds, b \in BOOLEAN :
             Made(log', "setNodeExpanded", x, b) =>
                /\ (x \in pendingIds') <=> b
                /\ Made(log, "setNodeExpanded", x, b) => pendingIds' = pendingIds
      ]_vars

\* setExpanded(a, true) twice in one batch, a collapsed before.
C3_Witness ==
    /\ ~isControlledExpanded
    /\ batch = 2
    /\ Made(log, "setNodeExpanded", "a", TRUE)
    /\ "a" \notin internalIds
    /\ "a" \in prevIds
    /\ pendingIds = prevIds

\* C4: the render context's setExpanded(b) on a branch whose expansion state
\* already is b (in the render it was called in and in the store) leaves the
\* expanded set as it is and does not invoke the on-toggle callback.
C4_SetExpandedSameStateSilent ==
    \A x \in BranchIds, b \in BOOLEAN :
       ( /\ batch > 0
         /\ log # << >>
         /\ Head(log) = Call("setExpanded", x, b)
         /\ isExpanded(x) <=> b
         /\ (x \in prevIds) <=> b )
       => /\ pendingIds = prevIds
          /\ Count(log, "onToggle") = 0

\* C5: at most one id satisfies isActive, in either mode and after any
\* sequence of setActive calls; none does when the active value is null; at
\* most one context of a traversal has isActive.
C5_AtMostOneActive ==
    /\ Cardinality({id \in AllIds : isActive(id)}) <= 1
    /\ activeId = Null => \A id \in AllIds : ~isActive(id)
    /\ Cardinality({i \in 1..Len(contexts) : contexts[i].isActive}) <= 1

\* setActive(a) was called and rendered: a is the active id.
C5_Witness ==
    /\ batch = 0
    /\ Made(log, "setActiveId", "a", FALSE)
    /\ isActive("a")
    /\ internalId = "a"

\* C6: no descendant of a branch that is not in the expanded set gets a
\* context, whatever the expanded set holds for the descendants, and the
\* context that follows the one of a leaf or of a collapsed branch is never
\* deeper than it.
C6_CollapsedNotRecursed ==
    /\ \A B \in AllNodes :
          (B.type = "branch" /\ B.id \notin expandedIds) =>
             \A i \in 1..Len(contexts) : contexts[i].node \notin (NodesOf(B) \ {B})
    /\ \A i \in 1..(Len(contexts) - 1) :
          (contexts[i].node.type = "leaf" \/ contexts[i].node.id \notin expandedIds) =>
             contexts[i + 1].depth <= contexts[i].depth

\* a is collapsed while its child b is in the expanded set: only the two roots
\* are rendered.
C6_Witness ==
    /\ "a" \notin expandedIds
    /\ "b" \in expandedIds
    /\ Len(contexts) = 2

\* C7: in every context hasChildren is true exactly when the node is a branch
\* with a non-empty children sequence; an expanded empty branch has
\* isExpanded true and hasChildren false.
C7_HasChildren ==
    \A i \in 1..Len(contexts) :
       LET c == contexts[i]
       IN  /\ c.hasChildren <=> (c.node.type = "branch" /\ Len(c.node.children) > 0)
           /\ ( /\ c.node.type = "branch"
                /\ c.node.children = << >>
                /\ c.node.id \in expandedIds )
              => (c.isExpanded /\ ~c.hasChildren)

\* The empty branch e is expanded.
C7_Witness ==
    \E i \in 1..Len(contexts) :
       /\ contexts[i].node.id = "e"
       /\ contexts[i].isExpanded
       /\ ~contexts[i].hasChildren

\* The last mutator invocation is a no-op case: toggle or setExpanded of a
\* leaf's context, or activate of a disabled node's context.
NoOpCase(l) ==
    \/ Head(l).ev \in {"toggle", "setExpanded"} /\ NodeById(Head(l).id).type = "leaf"
    \/ Head(l).ev = "activate" /\ NodeById(Head(l).id).disabled

\* C8: the render context's toggle() and setExpanded(b) on a leaf, and
\* activate() on a disabled node, call no reconciler mutator and no external
\* callback and leave the expanded set and the active id unchanged.
C8_SoftNoOps ==
    [][ (IsCall /\ NoOpCase(log')) =>
          /\ Len(log') = 1
          /\ UNCHANGED <<internalIds, pendingIds, internalId, pendingId>>
          /\ expandedIds' = expandedIds
          /\ activeId' = activeId
      ]_vars

\* toggle() of the context of leaf c was called.
C8_Witness ==
    /\ batch > 0
    /\ log = << Call("toggle", "c", FALSE) >>
    /\ \E i \in 1..Len(contexts) : contexts[i].node.id = "c"

\* C9: in uncontrolled mode every toggle() of a branch's context invokes the
\* on-toggle callback exactly once, with that node and with the expansion
\* state the reconciler holds for its id as a result of the call.
C9_ToggleCallbackMatchesStore ==
    \A x \in BranchIds :
       ( /\ ~isControlledExpanded
         /\ log # << >>
         /\ Head(log) = Call("toggle", x, FALSE) )
       => /\ Count(log, "onToggle") = 1
          /\ Made(log, "onToggle", x, x \in pendingIds)

\* C10: activate() of the context of a node that is not disabled calls
\* setActive with the node's id and the on-activate callback once each, in
\* both modes; in uncontrolled mode the store then holds the id and after the
\* next render the node is the only active one.
C10_Activate ==
    \A id \in AllIds :
       ( /\ log # << >>
         /\ Head(log) = Call("activate", id, FALSE)
         /\ ~NodeById(id).disabled )
       => /\ log = << Call("activate", id, FALSE),
                      Call("setActiveId", id, FALSE),
                      Call("onActivate", id, FALSE) >>
          /\ ~isControlledActive =>
                /\ pendingId = id
                /\ batch = 0 =>
                      /\ {y \in AllIds : isActive(y)} = {id}
                      /\ \A i \in 1..Len(contexts) :
                            contexts[i].isActive <=> contexts[i].node.id = id

\* activate() of the context of c was called and rendered, uncontrolled.
C10_Witness ==
    /\ batch = 0
    /\ ~isControlledActive
    /\ log # << >>
    /\ Head(log) = Call("activate", "c", FALSE)
    /\ \E i \in 1..Len(contexts) : contexts[i].node.id = "c" /\ contexts[i].isActive


\* ---------------------------------------------------------------------------
\* Reference description of a forest
\* ---------------------------------------------------------------------------

RECURSIVE positions(_, _, _)
\* Every node of a list of siblings and of their subtrees in pre-order, each
\* with the ids of its proper ancestors, its position among its siblings and
\* the number of siblings.
positions(list, i, anc) ==
    IF i > Len(list) THEN << >>
    ELSE << [id |-> list[i].id, anc |-> anc, index |-> i - 1, count |-> Len(list)] >>
         \o (IF list[i].type = "branch"
             THEN positions(list[i].children, 1, anc \cup {list[i].id})
             ELSE << >>)
         \o positions(list, i + 1, anc)

Positions == positions(nodes, 1, {})
PositionOf(id) == CHOOSE p \in {Positions[i] : i \in 1..Len(Positions)} : p.id = id

\* C11: the contexts of a traversal are, in pre-order (parent before children,
\* siblings in array order, roots in the order supplied), exactly the nodes
\* whose proper ancestors are all in the expanded set, each once.
C11_PreOrderVisible ==
    LET vis == SelectSeq(Positions, LAMBDA p : p.anc \subseteq expandedIds)
    IN  /\ Len(contexts) = Len(vis)
        /\ \A i \in 1..Len(contexts) : contexts[i].node.id = vis[i].id

\* The single root p is expanded and its middle child r is collapsed: p, q, r
\* and t are rendered in this order, s is not.
C11_Witness ==
    /\ props.data = WideData
    /\ batch = 0
    /\ log # << >>
    /\ "r" \notin expandedIds
    /\ Len(contexts) = 4
    /\ contexts[1].node.id = "p"
    /\ contexts[2].node.id = "q"
    /\ contexts[3].node.id = "r"
    /\ contexts[4].node.id = "t"

\* C12: in every context depth is the number of proper ancestors (0 for a
\* root), index is the position in the sibling list (the list of roots for a
\* root, a single root being a list of one), isFirst is index = 0 and isLast
\* is index = sibling count - 1; an only sibling has both.
C12_Position ==
    \A i \in 1..Len(contexts) :
       LET c == contexts[i]
           p == PositionOf(c.node.id)
       IN  /\ c.depth = Cardinality(p.anc)
           /\ c.index = p.index
           /\ c.isFirst <=> (c.index = 0)
           /\ c.isLast <=> (c.index = p.count - 1)
           /\ p.count = 1 => (c.isFirst /\ c.isLast)

\* The single root p and its grandchild s, an only child at depth 2, both
\* have isFirst and isLast; t is the last of three.
C12_Witness ==
    /\ props.data = WideData
    /\ Len(contexts) = 5
    /\ contexts[1].depth = 0 /\ contexts[1].isFirst /\ contexts[1].isLast
    /\ contexts[4].node.id = "s" /\ contexts[4].depth = 2
    /\ contexts[4].isFirst /\ contexts[4].isLast
    /\ contexts[5].node.id = "t" /\ contexts[5].index = 2
    /\ ~contexts[5].isFirst /\ contexts[5].isLast

\* C13: in every context isExpanded is false for a leaf, whatever the expanded
\* set holds for its id, and for a branch it is the membership of its id in
\* the current expanded set.
C13_IsExpanded ==
    \A i \in 1..Len(contexts) :
       LET c == contexts[i]
       IN  /\ c.node.type = "leaf" => ~c.isExpanded
           /\ c.node.type = "branch" => (c.isExpanded <=> c.node.id \in expandedIds)

\* toggleNode(s) put the id of leaf s into the uncontrolled set; s is rendered.
C13_Witness ==
    /\ ~isControlledExpanded
    /\ ~props.defaultExpandedIds.given
    /\ batch = 0
    /\ Made(log, "toggleNode", "s", FALSE)
    /\ "s" \in expandedIds
    /\ \E i \in 1..Len(contexts) : contexts[i].node.id = "s" /\ ~contexts[i].isExpanded


\* C14: an uncontrolled Sidebar starts, before any mutator call, with the ids
\* of all branch nodes of the forest (empty and nested branches included) if
\* defaultExpandAll is true, whatever defaultExpandedIds is; otherwise with
\* defaultExpandedIds if given; otherwise with the empty set.
C14_InitialExpanded ==
    (~isControlledExpanded /\ log = << >>) =>
       /\ expandedIds = internalIds
       /\ props.defaultExpandAll =>
             internalIds = {n.id : n \in {m \in AllNodes : m.type = "branch"}}
       /\ (~props.defaultExpandAll /\ props.defaultExpandedIds.given) =>
             internalIds = props.defaultExpandedIds.value
       /\ (~props.defaultExpandAll /\ ~props.defaultExpandedIds.given) =>
             internalIds = {}

\* Forest mounted with defaultExpandAll and a defaultExpandedIds that also
\* holds the leaf id: the nested branch b and the empty branch e are expanded,
\* the leaf id is not in the set.
C14_Witness ==
    /\ props.data = ForestData
    /\ ~isControlledExpanded
    /\ props.defaultExpandAll
    /\ props.defaultExpandedIds = Provided({"a", "b", "c", "e"})
    /\ log = << >>
    /\ internalIds = {"a", "b", "e"}
    /\ Len(contexts) = 4


\* C15: the initial expanded set is computed once: a render with another tree,
\* another defaultExpandedIds or another defaultExpandAll leaves the internal
\* expanded set as the mutators left it, and the set changes only in a toggle
\* or setExpanded call.
C15_InitialOnce ==
    [][ /\ props' # props => (pendingIds' = pendingIds /\ internalIds' = pendingIds)
        /\ pendingIds' # pendingIds =>
              (IsCall /\ Head(log').ev \in {"toggleNode", "setNodeExpanded"})
        /\ internalIds' # internalIds => (batch' = 0 /\ internalIds' = pendingIds)
      ]_vars

\* Mounted with an empty set and never mutated, then rendered with the
\* scenario tree and defaultExpandAll: the set is still empty.
C15_Witness ==
    /\ props.data = ScenarioData
    /\ props.defaultExpandAll
    /\ log = << >>
    /\ internalIds = {}
    /\ initialIds(props) = {"docs"}


\* C16 (scenario A): the first traversal of [docs [intro, api]], mounted
\* without controlled set, defaults or defaultExpandAll, yields exactly one
\* context: docs, depth 0, isExpanded false, hasChildren true.
C16_ScenarioA ==
    log = << >> =>
       /\ Len(contexts) = 1
       /\ contexts[1].node.id = "docs"
       /\ contexts[1].depth = 0
       /\ ~contexts[1].isExpanded
       /\ contexts[1].hasChildren
       /\ \A i \in 1..Len(contexts) : contexts[i].node.id \notin {"intro", "api"}

\* The mount of the scenario, before any call.
C16_Witness ==
    /\ props = UncontrolledProps(ScenarioData, NotProvided, FALSE)
    /\ log = << >>
    /\ batch = 0
    /\ expandedIds = {}
    /\ Len(contexts) = 1

\* C17 (scenario B): after one toggle of docs on the state of scenario A, the
\* next traversal yields exactly docs (isExpanded), intro (depth 1, index 0,
\* isFirst, not isLast) and api (depth 1, index 1, not isFirst, isLast), in
\* this order.
C17_ScenarioB ==
    ( /\ batch = 0
      /\ Made(log, "toggleNode", "docs", FALSE)
      /\ prevIds = {} )
    => /\ Len(contexts) = 3
       /\ contexts[1].node.id = "docs" /\ contexts[1].isExpanded
       /\ contexts[2].node.id = "intro"
       /\ contexts[2].depth = 1 /\ contexts[2].index = 0
       /\ contexts[2].isFirst /\ ~contexts[2].isLast
       /\ contexts[3].node.id = "api"
       /\ contexts[3].depth = 1 /\ contexts[3].index = 1
       /\ ~contexts[3].isFirst /\ contexts[3].isLast

\* toggle() of the context of docs was called once on the mounted state and
\* rendered.
C17_Witness ==
    /\ batch = 0
    /\ log = << Call("toggle", "docs", FALSE),
                Call("toggleNode", "docs", FALSE),
                Call("onToggle", "docs", TRUE) >>
    /\ prevIds = {}
    /\ internalIds = {"docs"}
    /\ internalId = Null
    /\ Len(contexts) = 3


\* C18: the active reconciler does not look at the disabled flag: uncontrolled,
\* setActive(id) with the id of a disabled node stores the id, and after the
\* render isActive(id) is true; activate() of the context of a disabled node
\* calls nothing and leaves the active id as it was.
C18_SetActiveIgnoresDisabled ==
    [][ /\ ( /\ IsCall
             /\ Head(log').ev = "setActiveId"
             /\ Head(log').id # Null
             /\ NodeById(Head(log').id).disabled
             /\ props.activeId = Undefined )
           => pendingId' = Head(log').id
        /\ ( /\ batch > 0 /\ batch' = 0
             /\ Head(log).ev = "setActiveId"
             /\ Head(log).id # Null
             /\ NodeById(Head(log).id).disabled
             /\ props.activeId = Undefined )
           => (isActive(Head(log).id))'
        /\ ( /\ IsCall
             /\ Head(log').ev = "activate"
             /\ NodeById(Head(log').id).disabled )
           => (Len(log') = 1 /\ pendingId' = pendingId)
      ]_vars

\* setActiveId("b") was called for the disabled node b while another id was
\* active, and rendered.
C18_Witness ==
    /\ props.activeId = Undefined
    /\ NodeById("b").disabled
    /\ batch = 0
    /\ log = << Call("setActiveId", "b", FALSE) >>
    /\ internalId = "b"
    /\ isActive("b")
    /\ props.defaultActiveId = "a"


\* C20: the reconcilers share no state and each chooses its mode from its own
\* prop: toggle and setExpanded never change the active id, setActive and
\* activate never change the expanded set; with the active id controlled and
\* the expansion uncontrolled a toggle of a branch flips the internal set while
\* setActive stores nothing, and the reverse with the props exchanged.
C20_Independent ==
    [][ /\ ( IsCall /\ Head(log').ev \in
                 {"toggleNode", "setNodeExpanded", "toggle", "setExpanded"} )
           => /\ pendingId' = pendingId
              /\ internalId' = internalId
              /\ activeId' = activeId
        /\ ( IsCall /\ Head(log').ev \in {"setActiveId", "activate"} )
           => /\ pendingIds' = pendingIds
              /\ internalIds' = internalIds
              /\ expandedIds' = expandedIds
        /\ ( IsCall /\ props.activeId # Undefined /\ ~props.expandedIds.given )
           => /\ pendingId' = pendingId
              /\ Head(log').ev = "toggleNode"
                 => pendingIds' = toggleUpdater(pendingIds, Head(log').id)
        /\ ( IsCall /\ props.activeId = Undefined /\ props.expandedIds.given )
           => /\ pendingIds' = pendingIds
              /\ Head(log').ev = "setActiveId"
                 => pendingId' = Head(log').id
      ]_vars

\* Controlled active id c, uncontrolled expansion: toggleNode(a) was rendered,
\* the set changed and the active id is the prop.
C20_Witness ==
    /\ props.activeId = "c"
    /\ ~props.expandedIds.given
    /\ batch = 0
    /\ log = << Call("toggleNode", "a", FALSE) >>
    /\ internalIds # prevIds
    /\ expandedIds = internalIds
    /\ activeId = "c"
    /\ internalId # "c"


\* C19: useSidebarContext() called where no provider value exists always ends
\* in the error and hands out no context, default or other; called below a
\* Sidebar it returns the value the Sidebar provided.
C19_ContextRead ==
    read # << >> =>
        LET r == read[1]
        IN  /\ ~r.inside =>
                /\ r.result.threw
                /\ r.result.value = << >>
                /\ r.result.message =
                      "useSidebarContext must be used within a SidebarProvider"
            /\ r.inside =>
                /\ ~r.result.threw
                /\ r.result.value = r.provided

\* The hook was called outside a Sidebar while a Sidebar with docs expanded and
\* api active was mounted.
C19_Witness ==
    /\ read # << >>
    /\ ~read[1].inside
    /\ read[1].result.threw
    /\ internalIds = {"docs"}
    /\ internalId = "api"

\* The hook was called below the Sidebar after docs was expanded and api
\* activated, and returned that state.
C19_WitnessInside ==
    /\ read # << >>
    /\ read[1].inside
    /\ read[1].result.value[1].expandedIds = {"docs"}
    /\ read[1].result.value[1].activeId = "api"


\* C21: uncontrolled, toggle(id) and setExpanded(id, b) change the membership
\* of that id alone: toggle flips it, setExpanded makes it b, and every other
\* id, ancestors and descendants included, is in the set after the call exactly
\* if it was before.
C21_OnlyThatId ==
    [][ ( IsCall /\ ~props.expandedIds.given )
        => \A i \in 1..Len(log') :
              log'[i].ev \in {"toggleNode", "setNodeExpanded"} =>
                 /\ \A y \in AllIds \ {log'[i].id} :
                        (y \in pendingIds') = (y \in pendingIds)
                 /\ log'[i].ev = "toggleNode" =>
                        (log'[i].id \in pendingIds') = (log'[i].id \notin pendingIds)
                 /\ log'[i].ev = "setNodeExpanded" =>
                        (log'[i].id \in pendingIds') = log'[i].flag
      ]_vars

\* r was toggled open while its parent p and its child s were in the set, and
\* both still are.
C21_Witness ==
    /\ props.data = WideData
    /\ ~props.expandedIds.given
    /\ log = << Call("toggleNode", "r", FALSE) >>
    /\ prevIds = {"p", "s"}
    /\ pendingIds = {"p", "r", "s"}


\* C22: at the expansion reconciler, for every id of a leaf node isExpanded(id)
\* is false in every state, and toggle(id) and setExpanded(id, true) leave the
\* expanded set as it was.
C22_LeafIdsInert ==
    [][ /\ \A id \in LeafIds : ~isExpanded(id)
        /\ ( /\ IsCall
             /\ Head(log').id \in LeafIds
             /\ \/ Head(log').ev = "toggleNode"
                \/ Head(log').ev = "setNodeExpanded" /\ Head(log').flag )
           => /\ pendingIds' = pendingIds
              /\ expandedIds' = expandedIds
      ]_vars


\* C23: with the expanded set controlled, toggle() of the context of a branch
\* still calls onToggle once, with the node and the negation of its membership
\* in the supplied set, setExpanded(b) calls it once with b, and neither writes
\* the internal store.
C23_ControlledStillNotifies ==
    [][ ( /\ IsCall
          /\ props.expandedIds.given
          /\ props.onToggle
          /\ Head(log').ev \in {"toggle", "setExpanded"}
          /\ Head(log').id \in BranchIds )
        => /\ Count(log', "onToggle") = 1
           /\ Head(log').ev = "toggle" =>
                Made(log', "onToggle", Head(log').id,
                     Head(log').id \notin props.expandedIds.value)
           /\ Head(log').ev = "setExpanded" =>
                Made(log', "onToggle", Head(log').id, Head(log').flag)
           /\ pendingIds' = pendingIds
           /\ internalIds' = internalIds
      ]_vars

\* toggle() of the context of the expanded branch a, the set being the prop
\* {a, b}: onToggle(a, false) was called and the internal store differs from
\* the prop.
C23_Witness ==
    /\ props.expandedIds = Provided({"a", "b"})
    /\ log = << Call("toggle", "a", FALSE),
                Call("toggleNode", "a", FALSE),
                Call("onToggle", "a", FALSE) >>
    /\ pendingIds = prevIds
    /\ internalIds = pendingIds
    /\ internalIds # {"a", "b"}


\* C24: the mode of each reconciler is the one of its construction for the
\* whole lifetime.  For a Sidebar mounted with neither expandedIds nor activeId
\* (uncontrolled twice): after every step, whatever the props of a later render
\* are, isExpanded reads the internal set and isActive the internal id, toggle
\* flips the id in the internal store and setActive stores its argument.
C24_ModeFixedAtMount ==
    [][ /\ expandedIds' = internalIds'
        /\ activeId' = internalId'
        /\ ( IsCall /\ Head(log').ev = "toggleNode" )
           => pendingIds' = toggleUpdater(pendingIds, Head(log').id)
        /\ ( IsCall /\ Head(log').ev = "setActiveId" )
           => pendingId' = Head(log').id
      ]_vars


\* C25: a full traversal happens between any two mutator calls: every mutator
\* call is the first since the last render, and the expanded set its context
\* was computed from holds every mutation applied so far.
C25_RetraversalBetweenCalls ==
    [][ IsCall =>
           /\ batch = 0
           /\ ~props.expandedIds.given => expandedIds = pendingIds
      ]_vars


\* C26: a disabled node is non-interactive: no click on its row, its chevron or
\* its name and no Enter or Space key on it, routed through a renderer, changes
\* the expanded set or the active id or makes any call.
C26_DisabledInert ==
    [][ ( /\ log' # << >>
          /\ Head(log').ev \in RendererEvents
          /\ log' # log \/ batch' > batch
          /\ NodeById(Head(log').id).disabled )
        => /\ Len(log') = 1
           /\ pendingIds' = pendingIds
           /\ pendingId' = pendingId
      ]_vars


C28_LeafOrder ==
    pc = "done" =>
        LET out == SelectSeq(output.value, LAMBDA n : n.type = "leaf")
            w(n) == n.content.weight
            dated(n) == ~getTime(n.content.created_on).nan
            time(n) == getTime(n.content.created_on).t
        IN  \A i, j \in 1..Len(out) :
               i < j =>
                 /\ w(out[j]).given => w(out[i]).given
                 /\ (w(out[i]).given /\ w(out[j]).given)
                       => w(out[i]).value <= w(out[j]).value
                 /\ (w(out[i]) = w(out[j]) /\ dated(out[i]) /\ dated(out[j]))
                       => time(out[i]) >= time(out[j])


\* C29: leaf admission.  When the scan processes a Markdown file of the articles
\* directory that was read and parsed: if its front matter lacks slug or
\* title, no node is added; if it has both, its leaf is added, with a warning
\* under its relative path when authors, created_on or status is lacking or
\* the slug differs from the file name, and with no warning when nothing is.
C29_LeafAdmission ==
    [][ ( /\ pc = "scan"
          /\ cursor <= Len(entries)
          /\ entries[cursor].kind = "file"
          /\ entries[cursor].name \in MarkdownNames
          /\ entries[cursor].error = Null )
        => LET entry == entries[cursor]
               fm == entry.fm
               lacks(field) == ~fm[field].given \/ fm[field].value = ""
               dropped == lacks("slug") \/ lacks("title")
               flagged == \/ lacks("authors") \/ lacks("created_on")
                          \/ lacks("status")
                          \/ (~lacks("slug") /\ fm.slug.value # entry.stem)
               path == << entry.name >>
           IN  /\ dropped => rawNodes' = rawNodes
               /\ ~dropped =>
                     /\ Len(rawNodes') = Len(rawNodes) + 1
                     /\ SubSeq(rawNodes', 1, Len(rawNodes)) = rawNodes
                     /\ rawNodes'[Len(rawNodes')].type = "leaf"
                     /\ rawNodes'[Len(rawNodes')].id = fm.slug.value
                     /\ rawNodes'[Len(rawNodes')].name = fm.title.value
               /\ (~dropped /\ flagged) =>
                     /\ path \in DOMAIN warnings'
                     /\ warnings'[path].badMarkdown = Null
               /\ (~dropped /\ ~flagged) => path \notin DOMAIN warnings'
      ]_vars

\* C30: a file that cannot be read or parsed.  When the scan processes such a
\* file, no node is added, its warning holds the message of the error under
\* the relative path, and the scan is at the next entry; and a scan that has
\* recorded such a warning is never given up: it ends with the output written.
C30_BadFileSkipped ==
    /\ [][ ( /\ pc = "scan"
             /\ cursor <= Len(entries)
             /\ entries[cursor].kind = "file"
             /\ entries[cursor].name \in MarkdownNames
             /\ entries[cursor].error # Null )
           => /\ rawNodes' = rawNodes
              /\ << entries[cursor].name >> \in DOMAIN warnings'
              /\ warnings'[<< entries[cursor].name >>].badMarkdown
                     = entries[cursor].error
              /\ cursor' = cursor + 1
              /\ pc' = "scan"
         ]_vars
    /\ []( (\E path \in DOMAIN warnings : warnings[path].badMarkdown # Null)
             => pc # "failed" )


\* C31: an article whose status is wip is ignored by the scanner: the written
\* output has no leaf, at any depth, whose front matter has the status wip.
C31_WipIgnored ==
    (pc = "done") =>
        \A n \in NodesOfList(output.value, 1) :
            n.type = "leaf" => ~(n.content.status.given /\ n.content.status.value = "wip")


\* The non-ignored directories of list, at every depth, each have their branch
\* in ns, among the children of the branch of their parent.
RECURSIVE EveryDirectoryIn(_, _)
EveryDirectoryIn(list, ns) ==
    \A i \in 1..Len(list) :
        (list[i].kind = "directory" /\ list[i].name \notin SystemNames)
            => \E j \in 1..Len(ns) :
                  /\ ns[j].type = "branch"
                  /\ ns[j].name = list[i].name
                  /\ EveryDirectoryIn(list[i].entries, ns[j].children)

\* C32: empty branches.  In the written output, with ignoreEmptyBranches on no
\* branch at any depth has an empty children list; with the switch off every
\* directory that is not a system item has its branch.
C32_EmptyBranches ==
    (pc = "done") =>
        IF m3Config.ignoreEmptyBranches
        THEN \A n \in NodesOfList(output.value, 1) :
                 n.type = "branch" => Len(n.children) > 0
        ELSE EveryDirectoryIn(entries, output.value)

\* C32 witness: with the switch on, a scan of a directory that holds only a
\* dropped file and an empty directory, and of one that holds an article, wrote
\* the branch of the second and none for the first.
C32_Witness ==
    /\ pc = "done"
    /\ m3Config.ignoreEmptyBranches
    /\ \E i \in 1..Len(entries) : entries[i].name = "Angular"
    /\ \E i \in 1..Len(entries) : entries[i].name = "Git"
    /\ \E i \in 1..Len(output.value) : output.value[i].name = "Git"
    /\ \A i \in 1..Len(output.value) : output.value[i].name # "Angular"


\* C33: in uncontrolled mode, a Sidebar mounted with an expanded set that is
\* empty or comes from defaultExpandAll, and driven through the mutators of its
\* render contexts alone, keeps only ids of branch nodes in its expanded set.
C33_OnlyBranchIds ==
    ( /\ ~props.expandedIds.given
      /\ \/ initialIds(props) = {}
         \/ props.defaultExpandAll /\ initialIds(props) = collectBranchIds(nodes) )
    => /\ internalIds \subseteq collectBranchIds(nodes)
       /\ pendingIds \subseteq collectBranchIds(nodes)

\* C33 witness: setExpanded(true) was called on the context of the leaf c, in
\* uncontrolled mode, and c is not in the expanded set.
C33_Witness ==
    /\ ~props.expandedIds.given
    /\ props.defaultExpandAll
    /\ Len(log) = 1
    /\ log[1] = Call("setExpanded", "c", TRUE)
    /\ "c" \notin pendingIds


\* C34: collapsing a branch keeps the expansion state of its descendants.  In
\* uncontrolled mode, let a context read give the expanded set and active id
\* of a traversal, let toggle() of an expanded branch P of that traversal be
\* the next mutator called, and let the Sidebar render.  Then a second toggle()
\* of P leaves, for the render that follows, the traversal the read was made in.
C34_ReopenRestores ==
    [][ \A ctx \in Visible :
          ( /\ ~props.expandedIds.given
            /\ batch = 0
            /\ read # << >>
            /\ read[1].inside
            /\ prevIds = read[1].provided[1].expandedIds
            /\ ctx.node.type = "branch"
            /\ ctx.node.id \in prevIds
            /\ log # << >>
            /\ log[1] = Call("toggle", ctx.node.id, FALSE)
            /\ batch' = 1
            /\ log'[1] = Call("toggle", ctx.node.id, FALSE) )
          => Sidebar(props', pendingIds', pendingId')
               = Sidebar(props, read[1].provided[1].expandedIds,
                         read[1].provided[1].activeId)
      ]_vars

\* C34 witness: in the forest a - b - c with everything expanded a was toggled
\* closed, rendered (b and e still in the set), toggled open and rendered.
C34_Witness ==
    /\ props.data.isArray
    /\ props.data.value = Forest
    /\ ~props.expandedIds.given
    /\ batch = 0
    /\ read # << >>
    /\ read[1].provided[1].expandedIds = {"a", "b", "e"}
    /\ prevIds = {"b", "e"}
    /\ log # << >>
    /\ log[1] = Call("toggle", "a", FALSE)
    /\ internalIds = {"a", "b", "e"}


\* C35: a controlled Sidebar whose parent adds the id to its Set on
\* onToggle(node, true) and deletes it on onToggle(node, false), and an
\* uncontrolled Sidebar started from the same Set, given the same toggle() and
\* setExpanded() calls, have the same traversal after every render.
C35_ControlledAsUncontrolled ==
    (twin.given /\ batch = 0)
        => contexts = Sidebar([props EXCEPT !.expandedIds = NotProvided],
                              twin.value.internalIds, internalId)


\* The ids of the nodes of a list of nodes, every node counted, from the i-th
\* node of the list on.
RECURSIVE idsIn(_, _)
idsIn(ns, i) ==
    IF i > Len(ns) THEN << >>
    ELSE << ns[i].id >>
         \o (IF ns[i].type = "branch" THEN idsIn(ns[i].children, 1) ELSE << >>)
         \o idsIn(ns, i + 1)

\* C36: the ids of the nodes of the written output, branches and leaves at
\* every depth, are pairwise distinct.
C36_OutputIdsDistinct ==
    (pc = "done") =>
        LET ids == idsIn(output.value, 1)
        IN  \A i, j \in 1..Len(ids) : ids[i] = ids[j] => i = j


\* The id of the branch that has the node t among its children, if any, and
\* the ids of the proper ancestors of t from the root down to that branch.
ParentsOf(t) ==
    {n.id : n \in {b \in AllNodes : /\ b.type = "branch"
                                    /\ \E k \in 1..Len(b.children) :
                                          b.children[k].id = t}}
RECURSIVE AncestorsOf(_)
AncestorsOf(t) ==
    IF ParentsOf(t) = {} THEN << >>
    ELSE LET parent == CHOOSE id \in ParentsOf(t) : TRUE
         IN  Append(AncestorsOf(parent), parent)

\* C37: findParentIds gives, for every node of the forest, the ids of its
\* proper ancestors from the root down to its parent, and null for an id the
\* forest does not have; findActiveNode gives a node of the pathname when
\* there is one; and in the traversal of a DocsSidebar that has mounted on the
\* page of a node, every ancestor of the node is expanded and the context of
\* the node has isActive true.
C37_ActivePathExpanded ==
    /\ \A t \in AllIds \cup {"changelog"} :
          findParentIds(nodes, 1, t, << >>)
              = IF t \in AllIds THEN Provided(AncestorsOf(t)) ELSE NotProvided
    /\ \A pathname \in Pathnames :
          LET id == findActiveNode(nodes, 1, pathname)
          IN  IF \E n \in AllNodes : n.content = pathname
              THEN /\ \E n \in AllNodes : n.id = id /\ n.content = pathname
                   /\ ( /\ log = << >>
                        /\ batch = 0
                        /\ props.activeId = id
                        /\ internalIds = props.defaultExpandedIds.value )
                      => /\ \A k \in 1..Len(AncestorsOf(id)) :
                               isExpanded(AncestorsOf(id)[k])
                         /\ \E k \in 1..Len(contexts) :
                               /\ contexts[k].node.id = id
                               /\ contexts[k].isActive
              ELSE id = Null

\* C37 witness: DocsSidebar has mounted on the page of auth-oauth, two
\* branches deep, and the first traversal shows it active.
C37_Witness ==
    /\ log = << >>
    /\ batch = 0
    /\ props.activeId = "auth-oauth"
    /\ internalIds = {"guides", "authentication"}
    /\ \E k \in 1..Len(contexts) :
          contexts[k].node.id = "auth-oauth" /\ contexts[k].isActive

====
